---------------------------- MODULE Spec2Model ----------------------------
(***************************************************************************)
(* Model of the mqttalrm tool collection (kurt-vd/mqttalrm).               *)
(*                                                                         *)
(* Part 1: mqttlogic, the per-topic RPN logic processor                    *)
(*   src/mqttlogic.c  item registry, topic cache, message handler          *)
(*   src/rpnlogic.c   RPN parser and evaluator                             *)
(*                                                                         *)
(* C strings are sequences of one-character strings, so that strtok,       *)
(* strtod, strncmp and sprintf are modelled by what they compute.          *)
(* A double is a sign, a numerator and a denominator (sign-magnitude, as   *)
(* IEEE 754): d = 0 with n = 1 is an infinity, d = 0 with n = 0 is a NaN.  *)
(* Finite values are exact rationals: the model does not round to 53 bits. *)
(***************************************************************************)
EXTENDS Integers, Sequences, FiniteSets, TLC

VARIABLES
    items,      \* mqttlogic: the linked list `items`, head first
    topics,     \* mqttlogic: the array `topics[0..ntopics-1]`, kept sorted
    msg,        \* the message the last handler call was given
    pubs,       \* the mosquitto_publish calls made by the last handler call
    runs,       \* the do_item calls made by the last handler call
    freed,      \* the chains the last handler call gave to rpn_free_chain
    redelivered, \* TRUE when the last message repeats the one before it
    alive,      \* FALSE once mylog(LOG_ERR, ...) has called exit(1)
    broker,     \* what mosquitto_publish may return: "ok" or "flaky"
    build,      \* what the build does where C leaves the behaviour open
    nmsg,       \* the number of messages delivered so far
    rst         \* evaluator harness: the state of one do_item call

vars == <<items, topics, msg, pubs, runs, freed, redelivered, alive, broker,
          build, nmsg, rst>>

-----------------------------------------------------------------------------
(* Characters and C string helpers                                         *)

Digits == <<"0", "1", "2", "3", "4", "5", "6", "7", "8", "9">>

DigitSet == {Digits[i] : i \in 1..10}

DigitTab == [c \in DigitSet |-> (CHOOSE i \in 1..10 : Digits[i] = c) - 1]

IsDigit(c) == c \in DigitSet

DigitVal(c) == DigitTab[c]

\* strcmp(a, b) == 0
StrEq(a, b) == a = b

\* the order of strcmp() on the characters the model uses (ASCII)
CharOrder == <<"\t", " ", "!", "$", "%", "&", "*", "+", "-", ".", "/",
               "0", "1", "2", "3", "4", "5", "6", "7", "8", "9",
               "<", ">", "^",
               "a", "b", "c", "d", "e", "f", "g", "i", "l", "n", "o", "p",
               "q", "s", "u", "w", "x", "y", "z", "{", "|", "}", "~">>

CharRankTab == [c \in {CharOrder[i] : i \in 1..Len(CharOrder)} |->
                   CHOOSE i \in 1..Len(CharOrder) : CharOrder[i] = c]

CharRank(c) == CharRankTab[c]

RECURSIVE StrLess(_, _)
\* strcmp(a, b) < 0
StrLess(a, b) ==
    IF b = <<>> THEN FALSE
    ELSE IF a = <<>> THEN TRUE
    ELSE IF Head(a) # Head(b) THEN CharRank(Head(a)) < CharRank(Head(b))
    ELSE StrLess(Tail(a), Tail(b))

\* index of the last occurrence of c in s, 0 when there is none (strrchr)
StrRChr(s, c) ==
    IF \E i \in 1..Len(s) : s[i] = c
    THEN CHOOSE i \in 1..Len(s) : s[i] = c /\ \A j \in (i+1)..Len(s) : s[j] # c
    ELSE 0

\* the characters of s from index i (1-based) to the end
StrFrom(s, i) == SubSeq(s, i, Len(s))

\* the first n characters of s, or all of s when it is shorter
StrN(s, n) == SubSeq(s, 1, IF Len(s) < n THEN Len(s) ELSE n)

\* strncmp(a, b, n) == 0: the comparison stops at n characters or at the
\* end of both strings
StrNEq(a, b, n) == StrN(a, n) = StrN(b, n)

-----------------------------------------------------------------------------
(* The messages the model delivers to mqttlogic                            *)

\* the item names the broker's clients configure: a is at once an item and
\* a topic other expressions read, n is only an item
ItemKeys == {<<"a">>, <<"n">>}

\* the plain topics on which data arrives
DataTopics == {<<"a">>, <<"b">>, <<"c">>}

\* data payloads: empty, 2 and 1.5 (which both print as 2 under %.0f)
Payloads == {<<>>, <<"2">>, <<"1", ".", "5">>}

\* spec payloads
ExprSum == <<"$", "{", "a", "}", " ", "$", "{", "b", "}", " ", "+">>

ExprDbl == <<"$", "{", "a", "}", " ", "$", "{", "a", "}", " ", "+">>

ExprBC  == <<"$", "{", "b", "}", " ", "$", "{", "c", "}", " ", "+">>

ExprFmt == <<"$", "{", "a", "}", " ", "%", ".", "0", "f">>

Exprs == {ExprSum, ExprDbl, ExprBC, ExprFmt}

-----------------------------------------------------------------------------
(* double arithmetic                                                       *)

\* The outcomes the build may produce where C leaves the result open:
\* icast is the value of (int)x for a NaN, an infinity or an out-of-range x
\* (undefined behaviour; 0 or INT_MIN on common targets), nanneg is the sign
\* bit of a freshly generated NaN (set on x86, clear on ARM).
IntMin == -2147483647 - 1

UBChoices == [icast : {0, IntMin}, nanneg : BOOLEAN]

Abs(i) == IF i < 0 THEN -i ELSE i

RECURSIVE Gcd(_, _)
Gcd(a, b) == IF b = 0 THEN a ELSE Gcd(b, a % b)

\* the double of sign s and magnitude n/d, in lowest terms
MkNum(s, n, d) ==
    IF d = 0 THEN [s |-> s, n |-> IF n = 0 THEN 0 ELSE 1, d |-> 0]
    ELSE LET g == Gcd(n, d) IN [s |-> s, n |-> n \div g, d |-> d \div g]

FromInt(i) == [s |-> IF i < 0 THEN -1 ELSE 1, n |-> Abs(i), d |-> 1]

Zero == FromInt(0)

NewNaN(ub) == [s |-> IF ub.nanneg THEN -1 ELSE 1, n |-> 0, d |-> 0]

IsNaN(x) == x.d = 0 /\ x.n = 0

IsInf(x) == x.d = 0 /\ x.n = 1

IsZero(x) == x.d # 0 /\ x.n = 0

Neg(x) == [x EXCEPT !.s = -x.s]

\* a + b
NumAdd(a, b, ub) ==
    IF IsNaN(a) THEN a
    ELSE IF IsNaN(b) THEN b
    ELSE IF IsInf(a) /\ IsInf(b) THEN (IF a.s = b.s THEN a ELSE NewNaN(ub))
    ELSE IF IsInf(a) THEN a
    ELSE IF IsInf(b) THEN b
    ELSE LET num == a.s * a.n * b.d + b.s * b.n * a.d
         IN  IF num = 0
             THEN [s |-> IF IsZero(a) /\ IsZero(b) /\ a.s = -1 /\ b.s = -1
                         THEN -1 ELSE 1,
                   n |-> 0, d |-> 1]
             ELSE MkNum(IF num < 0 THEN -1 ELSE 1, Abs(num), a.d * b.d)

\* a changed NumSub, for testing C11: the operands taken in the other order
NumSub_reversed(a, b, ub) ==
    IF IsNaN(a) /\ ~IsNaN(b) THEN a ELSE NumAdd(b, Neg(a), ub)

\* a - b
NumSub(a, b, ub) ==
    IF IsNaN(b) /\ ~IsNaN(a) THEN b ELSE NumAdd(a, Neg(b), ub)

\* a * b
NumMul(a, b, ub) ==
    IF IsNaN(a) THEN a
    ELSE IF IsNaN(b) THEN b
    ELSE IF (IsInf(a) /\ IsZero(b)) \/ (IsZero(a) /\ IsInf(b)) THEN NewNaN(ub)
    ELSE MkNum(a.s * b.s, a.n * b.n, a.d * b.d)

\* a / b
NumDiv(a, b, ub) ==
    IF IsNaN(a) THEN a
    ELSE IF IsNaN(b) THEN b
    ELSE IF (IsInf(a) /\ IsInf(b)) \/ (IsZero(a) /\ IsZero(b)) THEN NewNaN(ub)
    ELSE MkNum(a.s * b.s, a.n * b.d, a.d * b.n)

\* a < b, false when either is a NaN
NumLess(a, b) ==
    IF IsNaN(a) \/ IsNaN(b) THEN FALSE
    ELSE IF IsInf(a) \/ IsInf(b)
         THEN IF IsInf(a) /\ IsInf(b) THEN a.s < b.s
              ELSE IF IsInf(a) THEN a.s = -1
              ELSE b.s = 1
    ELSE a.s * a.n * b.d < b.s * b.n * a.d

RECURSIVE IPow(_, _)
IPow(b, e) == IF e = 0 THEN 1 ELSE b * IPow(b, e - 1)

\* A finite double the model has no exact value for (an irrational power):
\* the model stops instead of computing with a wrong value.
Inexact == CHOOSE x \in {} : TRUE

\* pow(a, b) of <math.h>
NumPow(a, b, ub) ==
    IF IsZero(b) THEN FromInt(1)
    ELSE IF a = FromInt(1) THEN a
    ELSE IF IsNaN(a) THEN a
    ELSE IF IsNaN(b) THEN b
    ELSE IF IsInf(b)
         THEN IF a.d # 0 /\ a.n = a.d THEN FromInt(1)
              ELSE IF (a.d # 0 /\ a.n < a.d) = (b.s = 1) THEN Zero
              ELSE [s |-> 1, n |-> 1, d |-> 0]
    ELSE IF b.d = 1
         THEN LET sg == IF a.s = -1 /\ b.n % 2 = 1 THEN -1 ELSE 1
              IN  IF IsInf(a) \/ IsZero(a)
                  THEN (IF (b.s = 1) = IsInf(a)
                        THEN [s |-> sg, n |-> 1, d |-> 0]
                        ELSE [s |-> sg, n |-> 0, d |-> 1])
                  ELSE IF b.s = 1
                       THEN MkNum(sg, IPow(a.n, b.n), IPow(a.d, b.n))
                       ELSE MkNum(sg, IPow(a.d, b.n), IPow(a.n, b.n))
    ELSE IF IsInf(a) \/ IsZero(a)
         THEN (IF (b.s = 1) = IsInf(a) THEN [s |-> 1, n |-> 1, d |-> 0] ELSE Zero)
    ELSE IF a.s = -1 THEN NewNaN(ub)
    ELSE Inexact

\* (int)x: truncation toward zero; undefined when the result does not fit
IntCast(x, ub) ==
    IF x.d = 0 THEN ub.icast ELSE x.s * (x.n \div x.d)

\* bit i (0..30) of the two's complement int x
Bit(x, i) ==
    IF x >= 0 THEN (x \div IPow(2, i)) % 2
    ELSE 1 - (((-1 - x) \div IPow(2, i)) % 2)

RECURSIVE BitSum(_, _, _, _, _)
\* sum over bits i..30 of f applied to the bits of x and y, complemented
\* when inv = 1
BitSum(f, x, y, i, inv) ==
    IF i > 30 THEN 0
    ELSE LET r == f[Bit(x, i)][Bit(y, i)]
         IN  (IF inv = 1 THEN 1 - r ELSE r) * IPow(2, i)
             + BitSum(f, x, y, i + 1, inv)

\* the int whose bits are f of the bits of x and y
BitOp(f, x, y) ==
    LET sx == IF x < 0 THEN 1 ELSE 0
        sy == IF y < 0 THEN 1 ELSE 0
    IN  IF f[sx][sy] = 0 THEN BitSum(f, x, y, 0, 0)
        ELSE -1 - BitSum(f, x, y, 0, 1)

BitAndTab == [a \in {0, 1} |-> [b \in {0, 1} |-> a * b]]

BitOrTab == [a \in {0, 1} |-> [b \in {0, 1} |-> IF a + b > 0 THEN 1 ELSE 0]]

BitXorTab == [a \in {0, 1} |-> [b \in {0, 1} |-> (a + b) % 2]]

-----------------------------------------------------------------------------
(* strtod and sprintf                                                      *)

IsSpace(c) == c = " " \/ c = "\t"

RECURSIVE SkipSpace(_)
SkipSpace(s) == IF s # <<>> /\ IsSpace(Head(s)) THEN SkipSpace(Tail(s)) ELSE s

RECURSIVE DigitRun(_)
\* the leading digits of s
DigitRun(s) ==
    IF s # <<>> /\ IsDigit(Head(s)) THEN <<Head(s)>> \o DigitRun(Tail(s))
    ELSE <<>>

RECURSIVE DecVal(_, _)
\* the value of the digit string ds appended to the value acc
DecVal(ds, acc) ==
    IF ds = <<>> THEN acc ELSE DecVal(Tail(ds), acc * 10 + DigitVal(Head(ds)))

\* the value of the sign neg, the integer digits ip and the fraction digits fp
StrToDValue(neg, ip, fp) ==
    IF ip = <<>> /\ fp = <<>> THEN Zero
    ELSE MkNum(IF neg THEN -1 ELSE 1, DecVal(ip \o fp, 0), IPow(10, Len(fp)))

\* r is the text after the integer digits
StrToDFraction(neg, ip, r) ==
    StrToDValue(neg, ip,
                IF r # <<>> /\ Head(r) = "." THEN DigitRun(Tail(r)) ELSE <<>>)

\* u is the text after the sign
StrToDDigits(neg, u) ==
    StrToDFraction(neg, DigitRun(u), StrFrom(u, Len(DigitRun(u)) + 1))

\* t is the text after the white space
StrToDSign(t) ==
    StrToDDigits(t # <<>> /\ Head(t) = "-",
                 IF t # <<>> /\ (Head(t) = "-" \/ Head(t) = "+") THEN Tail(t)
                 ELSE t)

\* strtod(s, NULL) for decimal text: white space, a sign, digits, a fraction.
\* Text without a number gives 0.  (Exponents, hexadecimal floats and the
\* words inf and nan do not occur in the model's payloads.)
StrToDText(s) == StrToDSign(SkipSpace(s))

\* the values of the model's data payloads, converted once
ParsedPayloads == [s \in Payloads |-> StrToDText(s)]

StrToD(s) == IF s \in Payloads THEN ParsedPayloads[s] ELSE StrToDText(s)

RECURSIVE NatDigits(_)
\* the decimal digits of n >= 0, without leading zeros
NatDigits(n) ==
    IF n < 10 THEN <<Digits[n + 1]>>
    ELSE NatDigits(n \div 10) \o <<Digits[(n % 10) + 1]>>

RECURSIVE FracDigits(_, _, _)
\* the first k digits (as numbers) of r/d after the decimal point, r < d
FracDigits(r, d, k) ==
    IF k = 0 THEN <<>>
    ELSE <<(r * 10) \div d>> \o FracDigits((r * 10) % d, d, k - 1)

RECURSIVE FracRem(_, _, _)
\* what is left of r/d below the k-th digit, as a numerator over d
FracRem(r, d, k) == IF k = 0 THEN r ELSE FracRem((r * 10) % d, d, k - 1)

RECURSIVE Incr(_)
\* add one to a digit string of numbers, giving <<carry, digits>>
Incr(ds) ==
    IF ds = <<>> THEN <<1, <<>>>>
    ELSE LET last == ds[Len(ds)]
             init == SubSeq(ds, 1, Len(ds) - 1)
         IN  IF last < 9 THEN <<0, init \o <<last + 1>>>>
             ELSE LET up == Incr(init) IN <<up[1], up[2] \o <<0>>>>

\* printf("%.<prec>f", x): rounded to nearest, ties to even
FormatF(x, prec) ==
    LET sign == IF x.s = -1 THEN <<"-">> ELSE <<>>
    IN  IF IsNaN(x) THEN sign \o <<"n", "a", "n">>
        ELSE IF IsInf(x) THEN sign \o <<"i", "n", "f">>
        ELSE
        LET ip    == x.n \div x.d
            r     == x.n % x.d
            fd    == FracDigits(r, x.d, prec)
            rem   == FracRem(r, x.d, prec)
            lastd == IF prec = 0 THEN ip % 10 ELSE fd[prec]
            up    == 2 * rem > x.d \/ (2 * rem = x.d /\ lastd % 2 = 1)
            inc   == IF up THEN Incr(fd) ELSE <<0, fd>>
            ip2   == ip + inc[1]
            frac  == [i \in 1..prec |-> Digits[inc[2][i] + 1]]
        IN  sign \o NatDigits(ip2) \o (IF prec = 0 THEN <<>> ELSE <<".">> \o frac)

\* the precision of the conversions the model's specs use: %f and %.Nf with
\* one digit N.  Other conversions are outside the model.
Precision(fmt) ==
    IF fmt = <<"%", "f">> THEN 6
    ELSE IF Len(fmt) = 4 /\ fmt[1] = "%" /\ fmt[2] = "." /\ IsDigit(fmt[3])
            /\ fmt[4] = "f"
         THEN DigitVal(fmt[3])
    ELSE Inexact

\* sprintf(buf, fmt, x)
Sprintf(fmt, x) == FormatF(x, Precision(fmt))

-----------------------------------------------------------------------------
(* rpnlogic.c: the RPN parser                                              *)

\* How my_mqtt_msg splits a spec payload: when the text after the last
\* space starts with %, that text is the format and the payload is cut at
\* the space; fmt is NULL otherwise.
SplitLogic(payload) ==
    LET sp  == StrRChr(payload, " ")
        cut == sp # 0 /\ sp < Len(payload) /\ payload[sp + 1] = "%"
    IN  [text |-> IF cut THEN SubSeq(payload, 1, sp - 1) ELSE payload,
         fmt  |-> IF cut THEN <<StrFrom(payload, sp + 1)>> ELSE <<>>]

\* a C pointer that may be NULL: <<>> is NULL, <<x>> points to x
None == <<>>

Some(x) == <<x>>

\* the operator table: token and run function
lookups == <<
    <<<<"+">>, "rpn_do_plus">>,
    <<<<"-">>, "rpn_do_minus">>,
    <<<<"*">>, "rpn_do_mul">>,
    <<<<"/">>, "rpn_do_div">>,
    <<<<"*", "*">>, "rpn_do_pow">>,
    <<<<"&">>, "rpn_do_bitand">>,
    <<<<"|">>, "rpn_do_bitor">>,
    <<<<"^">>, "rpn_do_bitxor">>,
    <<<<"~">>, "rpn_do_bitinv">>,
    <<<<"&", "&">>, "rpn_do_booland">>,
    <<<<"|", "|">>, "rpn_do_boolor">>,
    <<<<"!">>, "rpn_do_boolnot">>,
    <<<<"<">>, "rpn_do_lt">>,
    <<<<">">>, "rpn_do_gt">>,
    <<<<"d", "u", "p">>, "rpn_do_dup">>,
    <<<<"s", "w", "a", "p">>, "rpn_do_swap">> >>

RECURSIVE LookupFrom(_, _)
\* the loop of do_lookup from table entry i on
LookupFrom(tok, i) ==
    IF i > Len(lookups) THEN None
    ELSE IF StrEq(lookups[i][1], tok) THEN Some(lookups[i][2])
    ELSE LookupFrom(tok, i + 1)

\* the run function of the first table entry whose string is tok, or None
do_lookup(tok) == LookupFrom(tok, 1)

\* a node as rpn_create() leaves it (memset 0), with its run function set
rpn_create(run) == [run |-> run, value |-> Zero, topic |-> None, options |-> None]

RECURSIVE Strtok(_, _)
\* the tokens strtok(s, " \t") yields: maximal runs of non-delimiters;
\* cur is the token being collected
Strtok(s, cur) ==
    IF s = <<>> THEN (IF cur = <<>> THEN <<>> ELSE <<cur>>)
    ELSE IF IsSpace(Head(s))
         THEN (IF cur = <<>> THEN <<>> ELSE <<cur>>) \o Strtok(Tail(s), <<>>)
    ELSE Strtok(Tail(s), Append(cur, Head(s)))

\* the three token classes of rpn_parse, tested in this order
IsConstTok(tok) ==
    \/ IsDigit(tok[1])
    \/ Len(tok) >= 2 /\ (tok[1] = "+" \/ tok[1] = "-") /\ IsDigit(tok[2])

IsEnvTok(tok) ==
    Len(tok) >= 2 /\ tok[1] = "$" /\ tok[2] = "{" /\ tok[Len(tok)] = "}"

\* strndup(tok+2, strlen(tok+2)-1): the name between "${" and "}"
EnvName(tok) == SubSeq(tok, 3, Len(tok) - 1)

RECURSIVE ParseToks(_, _)
\* a changed ParseLookup, for testing C16: an unknown token ends the loop
\* and the chain built so far is kept
ParseLookup_prefix(rest, root, l) ==
    IF l # None THEN ParseToks(rest, Append(root, rpn_create(l[1])))
    ELSE root

\* the last branch of the loop of rpn_parse: l is what do_lookup returned.
\* An unknown token frees the chain and ends the loop with root = NULL.
ParseLookup(rest, root, l) ==
    IF l # None THEN ParseToks(rest, Append(root, rpn_create(l[1])))
    ELSE <<>>

\* the loop of rpn_parse over the tokens; root is the chain built so far
ParseToks(toks, root) ==
    IF toks = <<>> THEN root
    ELSE IF IsConstTok(Head(toks))
    THEN ParseToks(Tail(toks),
             Append(root, [rpn_create("rpn_do_const") EXCEPT
                               !.value = StrToD(Head(toks))]))
    ELSE IF IsEnvTok(Head(toks))
    THEN ParseToks(Tail(toks),
             Append(root, [rpn_create("rpn_do_env") EXCEPT
                               !.topic = Some(EnvName(Head(toks)))]))
    ELSE ParseLookup(Tail(toks), root, do_lookup(Head(toks)))

\* struct rpn *rpn_parse(const char *cstr): the chain as a sequence of nodes,
\* <<>> for NULL
rpn_parse_text(cstr) == ParseToks(Strtok(cstr, <<>>), <<>>)

\* The chains of the texts the model's spec payloads hold (a payload, or a
\* payload without its trailing format), parsed once.
ParsedExprs == [t \in {SplitLogic(e).text : e \in Exprs} |-> rpn_parse_text(t)]

rpn_parse(cstr) ==
    IF cstr \in DOMAIN ParsedExprs THEN ParsedExprs[cstr] ELSE rpn_parse_text(cstr)

-----------------------------------------------------------------------------
(* mqttlogic.c: the topic cache                                            *)

\* a cache entry as get_topic() creates it; value is NULL until the handler
\* stores the payload
NewTopic(name) == [topic |-> name, value |-> <<>>, ref |-> 0, changed |-> 0]

\* strcmp order of two cache entries
topiccmp(a, b) == IF a.topic = b.topic THEN 0
                  ELSE IF StrLess(a.topic, b.topic) THEN -1 ELSE 1

RECURSIVE BSearch(_, _, _, _)
\* one step of bsearch(): c is the comparison with the entry at mid
BSearchStep(tp, name, lo, hi, mid, c) ==
    IF c = 0 THEN mid
    ELSE IF c < 0 THEN BSearch(tp, name, lo, mid - 1)
    ELSE BSearch(tp, name, mid + 1, hi)

\* bsearch(): index in tp[lo..hi] of the entry named name, 0 when none
BSearch(tp, name, lo, hi) ==
    IF lo > hi THEN 0
    ELSE BSearchStep(tp, name, lo, hi, (lo + hi) \div 2,
                     topiccmp([topic |-> name], tp[(lo + hi) \div 2]))

\* get_topic(name, 0): index of the entry, 0 for NULL
FindTopic(tp, name) == BSearch(tp, name, 1, Len(tp))

RECURSIVE SortedInsert(_, _)
\* topics[ntopics++] = e; qsort(topics, ...): e at its place in sorted tp
SortedInsert(tp, e) ==
    IF tp = <<>> THEN <<e>>
    ELSE IF topiccmp(e, Head(tp)) < 0 THEN <<e>> \o tp
    ELSE <<Head(tp)>> \o SortedInsert(Tail(tp), e)

\* rpn_has_ref(rpn, topic): 1 when some node of the chain names topic
rpn_has_ref(rpn, topic) ==
    IF \E i \in 1..Len(rpn) : rpn[i].topic # None /\ StrEq(topic, rpn[i].topic[1])
    THEN 1 ELSE 0

\* the number of items of the list whose chain has a node naming name
ItemsWithRef(its, name) ==
    Cardinality({i \in 1..Len(its) : rpn_has_ref(its[i].logic, name) = 1})

\* a cache and the index of the entry named name in it
TopicIn(tp, name) == <<tp, FindTopic(tp, name)>>

\* get_topic after its bsearch gave index i (0: not found)
get_topic_found(tp, its, name, create, i) ==
    IF i # 0 THEN <<tp, i>>
    ELSE IF create = 0 THEN <<tp, 0>>
    ELSE TopicIn(SortedInsert(tp, [NewTopic(name) EXCEPT
                                       !.ref = ItemsWithRef(its, name)]),
                 name)

\* get_topic(name, create): <<topics afterwards, index of the entry or 0>>.
\* A new entry starts with one reference per item that already names it.
get_topic(tp, its, name, create) ==
    get_topic_found(tp, its, name, create, FindTopic(tp, name))

\* a changed rpn_lookup_topic, for testing C14: the changed flag is not
\* looked at
rpn_lookup_topic_ungated(tp, i, rpn) ==
    IF i = 0 THEN Zero ELSE StrToD(tp[i].value)

\* a changed rpn_lookup_topic, for testing C13: a missing topic gives no
\* number
rpn_lookup_topic_strict(tp, i, rpn) ==
    IF i = 0 THEN [s |-> 1, n |-> 0, d |-> 0]
    ELSE IF rpn.options # None /\ (\E k \in 1..Len(rpn.options[1]) :
                                      rpn.options[1][k] = "1")
            /\ tp[i].changed = 0
         THEN Zero
    ELSE StrToD(tp[i].value)

\* rpn_lookup_env after get_topic(name, 0) gave index i
rpn_lookup_topic(tp, i, rpn) ==
    IF i = 0 THEN Zero
    ELSE IF rpn.options # None /\ (\E k \in 1..Len(rpn.options[1]) :
                                      rpn.options[1][k] = "1")
            /\ tp[i].changed = 0
         THEN Zero
    ELSE StrToD(tp[i].value)

\* rpn_lookup_env(name, rpn): the value ${name} pushes
rpn_lookup_env(tp, name, rpn) == rpn_lookup_topic(tp, FindTopic(tp, name), rpn)

\* topic->ref += add for the entry at index i, nothing for NULL
AddRef(tp, i, add) == IF i = 0 THEN tp ELSE [tp EXCEPT ![i].ref = @ + add]

RECURSIVE rpn_add_ref(_, _, _)
\* rpn_add_ref(rpn, add): topics after adding `add` to the count of every
\* cached topic, once per node that names it
rpn_add_ref(tp, rpn, add) ==
    IF rpn = <<>> THEN tp
    ELSE IF Head(rpn).topic = None THEN rpn_add_ref(tp, Tail(rpn), add)
    ELSE rpn_add_ref(AddRef(tp, FindTopic(tp, Head(rpn).topic[1]), add),
                     Tail(rpn), add)

rpn_ref(tp, rpn) == rpn_add_ref(tp, rpn, 1)

\* a changed rpn_unref, for testing C4: the old chain is freed without
\* giving its counts back
rpn_unref_forgotten(tp, rpn) == tp

rpn_unref(tp, rpn) == rpn_add_ref(tp, rpn, -1)

-----------------------------------------------------------------------------
(* rpnlogic.c: the evaluator                                               *)

\* the operands an operator function requires on the stack (its st->n test)
MinStack(run) ==
    CASE run \in {"rpn_do_plus", "rpn_do_minus", "rpn_do_mul", "rpn_do_div",
                  "rpn_do_pow", "rpn_do_bitand", "rpn_do_bitor",
                  "rpn_do_bitxor", "rpn_do_booland", "rpn_do_boolor",
                  "rpn_do_lt", "rpn_do_gt", "rpn_do_swap"} -> 2
      [] run \in {"rpn_do_bitinv", "rpn_do_boolnot", "rpn_do_dup"} -> 1
      [] OTHER -> 0

BoolInt(b) == FromInt(IF b THEN 1 ELSE 0)

\* the value a two-operand function stores in st->v[st->n-2]
BinResult(run, a, b, ub) ==
    CASE run = "rpn_do_plus"    -> NumAdd(a, b, ub)
      [] run = "rpn_do_minus"   -> NumSub(a, b, ub)
      [] run = "rpn_do_mul"     -> NumMul(a, b, ub)
      [] run = "rpn_do_div"     -> NumDiv(a, b, ub)
      [] run = "rpn_do_pow"     -> NumPow(a, b, ub)
      [] run = "rpn_do_bitand"  ->
            FromInt(BitOp(BitAndTab, IntCast(a, ub), IntCast(b, ub)))
      [] run = "rpn_do_bitor"   ->
            FromInt(BitOp(BitOrTab, IntCast(a, ub), IntCast(b, ub)))
      [] run = "rpn_do_bitxor"  ->
            FromInt(BitOp(BitXorTab, IntCast(a, ub), IntCast(b, ub)))
      [] run = "rpn_do_booland" ->
            BoolInt(IntCast(a, ub) # 0 /\ IntCast(b, ub) # 0)
      [] run = "rpn_do_boolor"  ->
            BoolInt(IntCast(a, ub) # 0 \/ IntCast(b, ub) # 0)
      [] run = "rpn_do_lt"      -> BoolInt(NumLess(a, FromInt(IntCast(b, ub))))
      [] run = "rpn_do_gt"      -> BoolInt(NumLess(FromInt(IntCast(b, ub)), a))

\* rpn->run(st, rpn): <<return value, stack afterwards>>; the stack is the
\* sequence st->v[0..st->n-1]
RunNode(st, me, tp, ub) ==
    LET n == Len(st) IN
    IF n < MinStack(me.run) THEN <<-1, st>>
    ELSE CASE me.run = "rpn_do_const" -> <<0, Append(st, me.value)>>
           [] me.run = "rpn_do_env" ->
                <<0, Append(st, rpn_lookup_env(tp, me.topic[1], me))>>
           [] me.run = "rpn_do_dup" -> <<0, Append(st, st[n])>>
           [] me.run = "rpn_do_swap" ->
                <<0, [st EXCEPT ![n-1] = st[n], ![n] = st[n-1]]>>
           [] me.run = "rpn_do_bitinv" ->
                <<0, [st EXCEPT ![n] = FromInt(-1 - IntCast(st[n], ub))]>>
           [] me.run = "rpn_do_boolnot" ->
                <<0, [st EXCEPT ![n] = BoolInt(IntCast(st[n], ub) = 0)]>>
           [] OTHER ->
                <<0, Append(SubSeq(st, 1, n - 2),
                            BinResult(me.run, st[n-1], st[n], ub))>>

RECURSIVE rpn_run(_, _, _, _)
\* a changed rpn_run_next, for testing C10: the return value of a node is
\* not looked at
rpn_run_ignoring(r, rest, tp, ub) == rpn_run(r[2], rest, tp, ub)

\* the loop of rpn_run after a node returned r = <<ret, stack>>
rpn_run_next(r, rest, tp, ub) ==
    IF r[1] < 0 THEN r ELSE rpn_run(r[2], rest, tp, ub)

\* rpn_run(st, rpn): the nodes in order, stopping at the first that fails;
\* <<return value, stack afterwards>>
rpn_run(st, rpn, tp, ub) ==
    IF rpn = <<>> THEN <<0, st>>
    ELSE rpn_run_next(RunNode(st, Head(rpn), tp, ub), Tail(rpn), tp, ub)

-----------------------------------------------------------------------------
(* mqttlogic.c: items and the message handler                              *)

\* program options at their defaults
mqtt_suffix == <<"/", "l", "o", "g", "i", "c">>

mqtt_suffixlen == Len(mqtt_suffix)

mqtt_write_suffix == None

\* item at index i of the list, or 0: the loop of get_item over the list.
\* strncmp(it->topic, topic, matchlen) == 0 && !it->topic[matchlen]
\* a changed FindItem, for testing C17: the character after the compared
\* part of it->topic is not looked at
FindItem_prefix(its, topic, matchlen) ==
    LET hit(i) == StrNEq(its[i].topic, topic, matchlen)
    IN  IF \E i \in 1..Len(its) : hit(i)
        THEN CHOOSE i \in 1..Len(its) : hit(i) /\ \A j \in 1..(i-1) : ~hit(j)
        ELSE 0

FindItem(its, topic, matchlen) ==
    LET hit(i) == /\ StrNEq(its[i].topic, topic, matchlen)
                  /\ Len(its[i].topic) = matchlen
    IN  IF \E i \in 1..Len(its) : hit(i)
        THEN CHOOSE i \in 1..Len(its) : hit(i) /\ \A j \in 1..(i-1) : ~hit(j)
        ELSE 0

\* the item get_item() allocates: memset 0, topic cut at matchlen
NewItem(topic, matchlen) ==
    [topic      |-> SubSeq(topic, 1, matchlen),
     writetopic |-> IF mqtt_write_suffix = None THEN None
                    ELSE Some(SubSeq(topic, 1, matchlen) \o mqtt_write_suffix[1]),
     lastvalue  |-> None,
     logic      |-> <<>>,
     fmt        |-> None]

\* get_item after its search loop gave index i (0: not found)
get_item_found(its, topic, matchlen, create, i) ==
    IF i # 0 THEN <<its, i>>
    ELSE IF create = 0 THEN <<its, 0>>
    ELSE <<(<<NewItem(topic, matchlen)>> \o its), 1>>

\* get_item(topic, matchlen, create): <<list afterwards, index or 0>>; a new
\* item becomes the head of the list
get_item(its, topic, matchlen, create) ==
    get_item_found(its, topic, matchlen, create, FindItem(its, topic, matchlen))

\* drop_item(it): the list without the item at index i
drop_item(its, i) == SubSeq(its, 1, i - 1) \o SubSeq(its, i + 1, Len(its))

\* What one do_item call did, for observation: r is what rpn_run returned,
\* buf the formatted text (None when do_item returned before sprintf).
RunObs(it, r, buf, published) ==
    [topic |-> it.topic, ret |-> r[1], stack |-> r[2], buf |-> buf,
     last |-> it.lastvalue, published |-> published]

\* the mosquitto_publish call of do_item and what it returns
PublishCall(it, buf, pret) ==
    [topic   |-> IF it.writetopic = None THEN it.topic ELSE it.writetopic[1],
     payload |-> buf,
     retain  |-> mqtt_write_suffix = None,
     ret     |-> pret]

\* a changed do_item_text, for testing C7: the text is not compared with
\* the last published one
do_item_uncompared(it, r, buf, pret) ==
    IF pret < 0
    THEN [it |-> it, pub |-> <<PublishCall(it, buf, pret)>>,
          run |-> RunObs(it, r, Some(buf), TRUE), exit |-> TRUE]
    ELSE [it |-> [it EXCEPT !.lastvalue = Some(buf)],
          pub |-> <<PublishCall(it, buf, pret)>>,
          run |-> RunObs(it, r, Some(buf), TRUE), exit |-> FALSE]

\* a changed do_item_text, for testing C8: the published text is not
\* remembered
do_item_unsaved(it, r, buf, pret) ==
    IF StrEq(IF it.lastvalue = None THEN <<>> ELSE it.lastvalue[1], buf)
    THEN [it |-> it, pub |-> <<>>,
          run |-> RunObs(it, r, Some(buf), FALSE), exit |-> FALSE]
    ELSE [it |-> it, pub |-> <<PublishCall(it, buf, pret)>>,
          run |-> RunObs(it, r, Some(buf), TRUE), exit |-> pret < 0]

\* do_item from "test if we found something new" on: buf is the text
\* sprintf wrote
do_item_text(it, r, buf, pret) ==
    IF StrEq(IF it.lastvalue = None THEN <<>> ELSE it.lastvalue[1], buf)
    THEN [it |-> it, pub |-> <<>>,
          run |-> RunObs(it, r, Some(buf), FALSE), exit |-> FALSE]
    ELSE IF pret < 0
    THEN [it |-> it, pub |-> <<PublishCall(it, buf, pret)>>,
          run |-> RunObs(it, r, Some(buf), TRUE), exit |-> TRUE]
    ELSE [it |-> [it EXCEPT !.lastvalue = Some(buf)],
          pub |-> <<PublishCall(it, buf, pret)>>,
          run |-> RunObs(it, r, Some(buf), TRUE), exit |-> FALSE]

\* do_item after rpn_run returned r = <<ret, stack>>
do_item_ran(it, r, pret) ==
    IF r[1] < 0 \/ Len(r[2]) = 0
    THEN [it |-> it, pub |-> <<>>,
          run |-> RunObs(it, r, None, FALSE), exit |-> FALSE]
    ELSE do_item_text(it, r,
                      Sprintf(IF it.fmt = None THEN <<"%", "f">> ELSE it.fmt[1],
                              r[2][Len(r[2])]),
                      pret)

\* the names of the cache entries whose changed flag is set
ChangedTopics(tp) == {tp[k].topic : k \in {j \in 1..Len(tp) : tp[j].changed # 0}}

\* what do_item did (d), with the changed flags the cache held during the
\* call added to the observation
WithFlags(d, tp) == [d EXCEPT !.run = @ @@ [flags |-> ChangedTopics(tp)]]

\* do_item(it): evaluate, format, publish when the text is new.
\* pret is what mosquitto_publish returns if it is called.  The result:
\*   it    the item afterwards
\*   pub   the mosquitto_publish calls made (none or one)
\*   run   what the call did, for observation
\*   exit  TRUE when mylog(LOG_ERR, ...) ended the process
do_item(it, tp, ub, pret) ==
    WithFlags(do_item_ran(it, rpn_run(<<>>, it.logic, tp, ub), pret), tp)

\* the result of a handler call: the daemon's state afterwards and what the
\* call did
Outcome(its, tp, ps, rs, fr, ex) ==
    [items |-> its, topics |-> tp, pubs |-> ps, runs |-> rs, freed |-> fr,
     exit |-> ex]

\* msg->topic ends in the suffix and is longer than it
IsLogicTopic(topic) ==
    LET len == Len(topic)
    IN  /\ len > mqtt_suffixlen
        /\ StrEq(SubSeq(topic, len - mqtt_suffixlen + 1, len), mqtt_suffix)

\* the end of the "logic set" branch: d is what the first run did, old the
\* item before the message
LogicSetRan(list, i, tp2, old, d) ==
    Outcome([list EXCEPT ![i] = d.it], tp2, d.pub, <<d.run>>, <<old.logic>>,
            d.exit)

\* rpn_ref(it->logic); do_item(it): logic is the chain rpn_parse returned,
\* tp1 the cache after rpn_unref of the old chain
LogicSetParsed(list, i, tp1, fmt, logic, ub, pret) ==
    LogicSetRan(list, i, rpn_ref(tp1, logic), list[i],
                do_item([list[i] EXCEPT !.logic = logic, !.fmt = fmt],
                        rpn_ref(tp1, logic), ub, pret))

\* "remove old logic", "prepare new info" for the item at index i
LogicSetNew(list, i, tp, split, ub, pret) ==
    LogicSetParsed(list, i, rpn_unref(tp, list[i].logic), split.fmt,
                   rpn_parse(split.text), ub, pret)

\* the "logic set" branch after get_item returned g = <<list, index>>
LogicSetItem(g, its, tp, m, ub, prets) ==
    IF g[2] # 0 /\ Len(m.payload) = 0
    THEN Outcome(drop_item(g[1], g[2]), tp, <<>>, <<>>,
                 <<g[1][g[2]].logic>>, FALSE)
    ELSE IF g[2] = 0 THEN Outcome(its, tp, <<>>, <<>>, <<>>, FALSE)
    ELSE LogicSetNew(g[1], g[2], tp, SplitLogic(m.payload), ub, prets[1])

\* my_mqtt_msg, the "logic set" branch
LogicSetMsg(its, tp, m, ub, prets) ==
    LogicSetItem(get_item(its, m.topic, Len(m.topic) - mqtt_suffixlen,
                          IF Len(m.payload) > 0 THEN 1 ELSE 0),
                 its, tp, m, ub, prets)

\* the handler's result so far with what do_item did for item i added
PropagateRan(acc, i, d) ==
    Outcome([acc.items EXCEPT ![i] = d.it], acc.topics, acc.pubs \o d.pub,
            Append(acc.runs, d.run), acc.freed, d.exit)

\* a changed do_item_ran, for testing C40: the text is published whether
\* it is new or not
do_item_republished(it, r, pret) ==
    IF r[1] < 0 \/ Len(r[2]) = 0
    THEN [it |-> it, pub |-> <<>>,
          run |-> RunObs(it, r, None, FALSE), exit |-> FALSE]
    ELSE do_item_uncompared(it, r,
                            Sprintf(IF it.fmt = None THEN <<"%", "f">>
                                    ELSE it.fmt[1], r[2][Len(r[2])]),
                            pret)

RECURSIVE Propagate_all(_, _, _, _, _, _)
\* a changed Propagate, for testing C40: every item but the one named like
\* the message is run, whether its chain names the topic or not, and
\* publishes its text, whether it is new or not
Propagate_all(acc, i, tp, name, ub, prets) ==
    IF i > Len(acc.items) \/ acc.exit THEN acc
    ELSE IF StrEq(acc.items[i].topic, name)
         THEN Propagate_all(acc, i + 1, tp, name, ub, prets)
    ELSE Propagate_all(
             PropagateRan(acc, i,
                 WithFlags(do_item_republished(acc.items[i],
                               rpn_run(<<>>, acc.items[i].logic, tp, ub),
                               prets[i]), tp)),
             i + 1, tp, name, ub, prets)

RECURSIVE Propagate(_, _, _, _, _, _)
\* the loop of my_mqtt_msg over the items, from index i on: every item but
\* the one named like the message is run when its chain names the topic
Propagate(acc, i, tp, name, ub, prets) ==
    IF i > Len(acc.items) \/ acc.exit THEN acc
    ELSE IF StrEq(acc.items[i].topic, name)
         THEN Propagate(acc, i + 1, tp, name, ub, prets)
    ELSE IF rpn_has_ref(acc.items[i].logic, name) = 1
         THEN Propagate(PropagateRan(acc, i,
                                     do_item(acc.items[i], tp, ub, prets[i])),
                        i + 1, tp, name, ub, prets)
    ELSE Propagate(acc, i + 1, tp, name, ub, prets)

\* a changed DataLooped, for testing C15: the flag is not cleared
DataLooped_kept(p, tpc, k) == [p EXCEPT !.topics = tpc]

\* topic->changed = 0 after the loop; exit(1) inside the loop leaves the
\* flag set.  p is the result of the loop, tpc the cache during it.
DataLooped(p, tpc, k) ==
    IF p.exit THEN [p EXCEPT !.topics = tpc]
    ELSE [p EXCEPT !.topics = [tpc EXCEPT ![k].changed = 0]]

\* a changed DataStored, for testing C28: no item is run
DataStored_quiet(its, tp1, k, m, ub, prets) ==
    Outcome(its, tp1, <<>>, <<>>, <<>>, FALSE)

\* the data branch after the payload was stored in entry k of tp1
DataStored(its, tp1, k, m, ub, prets) ==
    IF tp1[k].ref # 0
    THEN DataLooped(Propagate(Outcome(its, tp1, <<>>, <<>>, <<>>, FALSE), 1,
                              [tp1 EXCEPT ![k].changed = 1], m.topic, ub, prets),
                    [tp1 EXCEPT ![k].changed = 1], k)
    ELSE Outcome(its, tp1, <<>>, <<>>, <<>>, FALSE)

\* the data branch after get_topic returned g = <<cache, index>>
DataTopic(g, its, tp, m, ub, prets) ==
    IF g[2] = 0 THEN Outcome(its, tp, <<>>, <<>>, <<>>, FALSE)
    ELSE DataStored(its, [g[1] EXCEPT ![g[2]].value = m.payload], g[2], m,
                    ub, prets)

\* my_mqtt_msg, the data branch
DataMsg(its, tp, m, ub, prets) ==
    DataTopic(get_topic(tp, its, m.topic, IF Len(m.payload) > 0 THEN 1 ELSE 0),
              its, tp, m, ub, prets)

\* static void my_mqtt_msg(mosq, dat, msg)
my_mqtt_msg(its, tp, m, ub, prets) ==
    IF IsLogicTopic(m.topic) THEN LogicSetMsg(its, tp, m, ub, prets)
    ELSE DataMsg(its, tp, m, ub, prets)

-----------------------------------------------------------------------------
(* mqttimer: the item list                                                 *)

timer_mqtt_suffix == <<"/", "t", "i", "m", "e", "r">>

mqtt_reset_value == <<"0">>

\* the constant NAN of math.h
NAN == [s |-> 1, n |-> 0, d |-> 0]

\* the item get_item() of mqttimer allocates: the topic is copied whole,
\* topiclen is the length without the suffix; wsfx is mqtt_write_suffix
timer_NewItem(topic, len, wsfx) ==
    [topic      |-> topic,
     topiclen   |-> len,
     writetopic |-> IF wsfx = None THEN None ELSE Some(topic \o wsfx[1]),
     resetvalue |-> mqtt_reset_value,
     delay      |-> NAN,
     ontime     |-> NAN]

\* the loop of get_item: (it->topiclen == len) && !strncmp(it->topic, topic, len)
timer_FindItem(its, topic, len) ==
    LET hit(i) == its[i].topiclen = len /\ StrNEq(its[i].topic, topic, len)
    IN  IF \E i \in 1..Len(its) : hit(i)
        THEN CHOOSE i \in 1..Len(its) : hit(i) /\ \A j \in 1..(i-1) : ~hit(j)
        ELSE 0

\* get_item after its search loop gave index i
timer_get_item_found(its, topic, len, create, wsfx, i) ==
    IF i # 0 THEN <<its, i>>
    ELSE IF create = 0 THEN <<its, 0>>
    ELSE <<(<<timer_NewItem(topic, len, wsfx)>> \o its), 1>>

\* get_item once len = strlen(topic) - strlen(suffix) is known
timer_get_item_len(its, topic, suffix, create, wsfx, len) ==
    IF len < 0 THEN <<its, 0>>
    ELSE IF StrFrom(topic, len + 1) # suffix THEN <<its, 0>>
    ELSE timer_get_item_found(its, topic, len, create, wsfx,
                              timer_FindItem(its, topic, len))

\* get_item(topic, suffix, create) of mqttimer: <<list afterwards, index or
\* 0>>; a NULL suffix is the empty string
timer_get_item(its, topic, suffix, create, wsfx) ==
    timer_get_item_len(its, topic, suffix, create, wsfx,
                       Len(topic) - Len(suffix))

\* drop_item(it) of mqttimer: the list without the item at index i
timer_drop_item(its, i) == SubSeq(its, 1, i - 1) \o SubSeq(its, i + 1, Len(its))

-----------------------------------------------------------------------------
(* mqttimer: the timer spec, the data topic and the reset timeout          *)

\* r is the text after the integer digits: what follows the fraction
StrToDEndFraction(r) ==
    IF r # <<>> /\ Head(r) = "." THEN StrFrom(r, Len(DigitRun(Tail(r))) + 2)
    ELSE r

\* u is the text after the sign: without any digit nothing is converted
StrToDEndDigits(s, u) ==
    IF /\ DigitRun(u) = <<>>
       /\ ~(u # <<>> /\ Head(u) = "." /\ DigitRun(Tail(u)) # <<>>)
    THEN s
    ELSE StrToDEndFraction(StrFrom(u, Len(DigitRun(u)) + 1))

\* t is the text after the white space
StrToDEndSign(s, t) ==
    StrToDEndDigits(s, IF t # <<>> /\ (Head(t) = "-" \/ Head(t) = "+")
                       THEN Tail(t) ELSE t)

\* what strtod(s, &endp) leaves in endp, for the decimal text of StrToDText
StrToDEnd(s) == StrToDEndSign(s, SkipSpace(s))

UpperCase ==
    <<"A", "B", "C", "D", "E", "F", "G", "H", "I", "J", "K", "L", "M",
      "N", "O", "P", "Q", "R", "S", "T", "U", "V", "W", "X", "Y", "Z">>

LowerCase ==
    <<"a", "b", "c", "d", "e", "f", "g", "h", "i", "j", "k", "l", "m",
      "n", "o", "p", "q", "r", "s", "t", "u", "v", "w", "x", "y", "z">>

\* tolower(c) in the C locale
ToLower(c) ==
    IF \E k \in 1..Len(UpperCase) : UpperCase[k] = c
    THEN LowerCase[CHOOSE k \in 1..Len(UpperCase) : UpperCase[k] = c]
    ELSE c

\* the cases of the switch on the unit letter; every case but the last
\* falls through into the next
DelayCaseM(v, ub) == NumMul(v, FromInt(60), ub)

\* a changed `case 'h'`, for testing C18: the case ends with a break
DelayCaseH_break(v, ub) == NumMul(v, FromInt(60), ub)

DelayCaseH(v, ub) == DelayCaseM(NumMul(v, FromInt(60), ub), ub)

DelayCaseD(v, ub) == DelayCaseH(NumMul(v, FromInt(24), ub), ub)

DelayCaseW(v, ub) == DelayCaseD(NumMul(v, FromInt(7), ub), ub)

\* switch (tolower(*tok)) once strtod has left tok at c ("" at the end)
DelaySwitch(v, c, ub) ==
    CASE c = "w" -> DelayCaseW(v, ub)
      [] c = "d" -> DelayCaseD(v, ub)
      [] c = "h" -> DelayCaseH(v, ub)
      [] c = "m" -> DelayCaseM(v, ub)
      [] OTHER   -> v

\* it->delay for the first token of a timer spec
timer_delay_end(tok, rest, ub) ==
    DelaySwitch(StrToDText(tok), IF rest = <<>> THEN "" ELSE ToLower(rest[1]), ub)

timer_delay(tok, ub) == timer_delay_end(tok, StrToDEnd(tok), ub)

\* libt keeps one timeout per (callback, argument); the only callback of
\* mqttimer is reset_item, the argument is named by the item's topic
libt_remove_timeout(tmo, dat) == {t \in tmo : t.dat # dat}

libt_add_timeouta(tmo, wakeup, dat) ==
    libt_remove_timeout(tmo, dat) \cup {[dat |-> dat, wakeup |-> wakeup]}

\* the list with item i replaced
SetItem(its, i, it) == [its EXCEPT ![i] = it]

TimerOut(its, tmo) == [items |-> its, timeouts |-> tmo]

\* the end of the spec branch: the timeout is removed and, with a delay and
\* an on-time, set again
timer_spec_sched(its, i, it, tmo, ub) ==
    TimerOut(SetItem(its, i, it),
             IF ~IsNaN(it.delay) /\ ~IsNaN(it.ontime)
             THEN libt_add_timeouta(tmo, NumAdd(it.ontime, it.delay, ub), it.topic)
             ELSE libt_remove_timeout(tmo, it.topic))

\* "process timeout spec", "find new reset value": toks are the tokens of
\* the payload
timer_spec_toks(its, i, tmo, toks, ub) ==
    timer_spec_sched(its, i,
        [its[i] EXCEPT
            !.delay = IF toks # <<>> THEN timer_delay(toks[1], ub) ELSE NAN,
            !.resetvalue = IF Len(toks) >= 2 THEN toks[2] ELSE mqtt_reset_value],
        tmo, ub)

\* a changed timer_spec_msg, for testing C33: the item is dropped with its
\* timeout left in libt
timer_spec_msg_leak(its, i, tmo, m, ub) ==
    IF m.payload = <<>>
    THEN TimerOut(timer_drop_item(its, i), tmo)
    ELSE timer_spec_toks(its, i, tmo, Strtok(m.payload, <<>>), ub)

\* the spec branch of my_mqtt_msg for item i
timer_spec_msg(its, i, tmo, m, ub) ==
    IF m.payload = <<>>
    THEN TimerOut(timer_drop_item(its, i), libt_remove_timeout(tmo, its[i].topic))
    ELSE timer_spec_toks(its, i, tmo, Strtok(m.payload, <<>>), ub)

\* a changed timer_data_msg, for testing C30: every value that is not the
\* reset value starts the delay again
timer_data_msg_restart(its, i, tmo, m, now, ub) ==
    IF its[i].resetvalue = m.payload
    THEN TimerOut(SetItem(its, i, [its[i] EXCEPT !.ontime = NAN]),
                  libt_remove_timeout(tmo, its[i].topic))
    ELSE TimerOut(SetItem(its, i, [its[i] EXCEPT !.ontime = FromInt(now)]),
                  libt_add_timeouta(tmo, NumAdd(FromInt(now), its[i].delay, ub),
                                    its[i].topic))

\* a changed timer_data_msg, for testing C31: the reset value clears the
\* on-time and leaves the timeout
timer_data_msg_pending(its, i, tmo, m, now, ub) ==
    IF its[i].resetvalue = m.payload
    THEN TimerOut(SetItem(its, i, [its[i] EXCEPT !.ontime = NAN]), tmo)
    ELSE IF IsNaN(its[i].ontime)
    THEN TimerOut(SetItem(its, i, [its[i] EXCEPT !.ontime = FromInt(now)]),
                  libt_add_timeouta(tmo, NumAdd(FromInt(now), its[i].delay, ub),
                                    its[i].topic))
    ELSE TimerOut(its, tmo)

\* the branch of the main timer topic for item i, at time now
timer_data_msg(its, i, tmo, m, now, ub) ==
    IF its[i].resetvalue = m.payload
    THEN TimerOut(SetItem(its, i, [its[i] EXCEPT !.ontime = NAN]),
                  libt_remove_timeout(tmo, its[i].topic))
    ELSE IF IsNaN(its[i].ontime)
    THEN TimerOut(SetItem(its, i, [its[i] EXCEPT !.ontime = FromInt(now)]),
                  libt_add_timeouta(tmo, NumAdd(FromInt(now), its[i].delay, ub),
                                    its[i].topic))
    ELSE TimerOut(its, tmo)

\* my_mqtt_msg when the message is no spec message: h is what
\* get_item(msg->topic, NULL, 0) returned
timer_msg_data(h, tmo, m, now, ub) ==
    IF h[2] # 0 THEN timer_data_msg(h[1], h[2], tmo, m, now, ub)
    ELSE TimerOut(h[1], tmo)

\* my_mqtt_msg: g is what get_item(msg->topic, mqtt_suffix, !!payloadlen)
\* returned
timer_msg_spec(g, its, tmo, m, now, wsfx, ub) ==
    IF g[2] # 0 THEN timer_spec_msg(g[1], g[2], tmo, m, ub)
    ELSE timer_msg_data(timer_get_item(its, m.topic, <<>>, 0, wsfx), tmo, m, now, ub)

\* my_mqtt_msg of mqttimer
timer_my_mqtt_msg(its, tmo, m, now, wsfx, ub) ==
    timer_msg_spec(timer_get_item(its, m.topic, timer_mqtt_suffix,
                                  IF m.payload = <<>> THEN 0 ELSE 1, wsfx),
                   its, tmo, m, now, wsfx, ub)

\* the mosquitto_publish call of reset_item
reset_publish(it, wsfx, pret) ==
    [topic   |-> IF it.writetopic = None THEN it.topic ELSE it.writetopic[1],
     payload |-> it.resetvalue,
     retain  |-> wsfx = None,
     ret     |-> pret]

\* reset_item(it): the item afterwards ("clear cache too")
reset_item(it) == [it EXCEPT !.ontime = Zero]

-----------------------------------------------------------------------------
(* mqttalrm: the item list                                                 *)

ALRM_OFF == 0

ALRM_ON == 1

ALRM_SNOOZED == 2

\* index of the last "/" of s, or 0
LastSlash(s) ==
    IF \E k \in 1..Len(s) : s[k] = "/"
    THEN CHOOSE k \in 1..Len(s) : s[k] = "/" /\ \A j \in (k+1)..Len(s) : s[j] # "/"
    ELSE 0

\* the item get_item() of mqttalrm allocates: memset 0, the topic cut at
\* len, enabled, all week days
alrm_NewItem(topic, len) ==
    [topic       |-> StrN(topic, len),
     topiclen    |-> Len(StrN(topic, len)),
     namepos     |-> LastSlash(StrN(topic, len)),
     hhmm        |-> 0,
     wdays       |-> 127,
     valid       |-> 0,
     enabled     |-> 1,
     skip        |-> 0,
     state       |-> ALRM_OFF,
     snooze_time |-> 0,
     scheduled   |-> 0]

alrm_get_item_found(its, topic, len, create, i) ==
    IF i # 0 THEN <<its, i>>
    ELSE IF create = 0 THEN <<its, 0>>
    ELSE <<(<<alrm_NewItem(topic, len)>> \o its), 1>>

alrm_get_item_len(its, topic, create, len) ==
    IF len <= 0 THEN <<its, 0>>
    ELSE alrm_get_item_found(its, topic, len, create,
                             timer_FindItem(its, topic, len))

\* get_item(topic, suffix, create) of mqttalrm
alrm_get_item(its, topic, suffix, create) ==
    alrm_get_item_len(its, topic, create, Len(topic) - Len(suffix))

alrm_drop_item(its, i) == SubSeq(its, 1, i - 1) \o SubSeq(its, i + 1, Len(its))

-----------------------------------------------------------------------------
(* mqttalrm: alarms, the skip flag and the timerfd                          *)
(* Time is the time_t of the code, in seconds; localtime is UTC without     *)
(* daylight saving, so that mktime_dstsafe is day * 86400 + the time of     *)
(* day.  The alarm times of the model are whole hours before 24:00.         *)

\* alrm_states[state], indexed from 1
alrm_states == << <<"0">>, <<"1">>, <<"s", "n", "o", "o", "z", "e", "d">> >>

\* strtoul(str, &next, 10) of a text of digits: the value
StrToUL(str) == DecVal(DigitRun(str), 0)

\* strtohhmm(str): hh*100+mm, or -1 without digits or without one of ":hHuU"
\* after them.  Digits alone pass the test too, and the minutes are then
\* read behind the end of the text: no payload of the model does that.
strtohhmm_next(str, next) ==
    IF DigitRun(str) = <<>> THEN -1
    ELSE IF next # <<>> /\ Head(next) \notin {":", "h", "H", "u", "U"} THEN -1
    ELSE IF next = <<>> THEN Inexact
    ELSE StrToUL(str) * 100 + StrToUL(Tail(next))

strtohhmm(str) == strtohhmm_next(str, StrFrom(str, Len(DigitRun(str)) + 1))

RECURSIVE strtowdays_from(_, _)
\* strtowdays: bit (j+1) % 7 for every character j < 7 that is not - or _
strtowdays_from(str, j) ==
    IF j > Len(str) \/ j > 7 THEN 0
    ELSE (IF str[j] \in {"-", "_"} THEN 0 ELSE IPow(2, j % 7))
         + strtowdays_from(str, j + 1)

strtowdays(str) == strtowdays_from(str, 1)

\* tm_wday of day number day since 1970-01-01, a Thursday
WDay(day) == (day + 4) % 7

RECURSIVE NextAlarmDay(_, _, _)
\* the loop of next_alarm: up to 7 days further until wdays has the day
NextAlarmDay(wdays, day, j) ==
    IF j >= 7 \/ Bit(wdays, WDay(day)) = 1 THEN day
    ELSE NextAlarmDay(wdays, day + 1, j + 1)

\* mktime of hhmm on day number day
AlarmTime(day, hhmm) == day * 86400 + (hhmm \div 100) * 3600 + (hhmm % 100) * 60

\* next_alarm once the day of tnow is known
next_alarm_day(it, tnow, day) ==
    AlarmTime(NextAlarmDay(it.wdays,
                           IF AlarmTime(day, it.hhmm) <= tnow THEN day + 1 ELSE day,
                           0),
              it.hhmm)

next_alarm(it, tnow) == next_alarm_day(it, tnow, tnow \div 86400)

AlrmPub(topic, payload, retain) ==
    [topic |-> topic, payload |-> payload, retain |-> retain]

\* pub_alrm_count(): the number of items that are on, on state/alrm/on
pub_alrm_count(its) ==
    AlrmPub(<<"s", "t", "a", "t", "e", "/", "a", "l", "r", "m", "/", "o", "n">>,
            NatDigits(Cardinality({i \in 1..Len(its) : its[i].state = ALRM_ON})),
            TRUE)

\* pub_alrm_event(it): the name of the alarm on state/alrm/<state>
pub_alrm_event(it) ==
    AlrmPub(<<"s", "t", "a", "t", "e", "/", "a", "l", "r", "m", "/">>
                \o alrm_states[it.state + 1],
            StrFrom(it.topic, it.namepos + 1), FALSE)

\* pub_alrm_state(it), with the pub_alrm_event that follows each call
pub_alrm_state(its, i) ==
    << AlrmPub(its[i].topic, alrm_states[its[i].state + 1], TRUE),
       pub_alrm_count(its),
       pub_alrm_event(its[i]) >>

RECURSIVE MinScheduled(_, _, _)
\* the loop of arm_timerfd: the earliest scheduled alarm, 0 without any
MinScheduled(its, i, next) ==
    IF i > Len(its) THEN next
    ELSE MinScheduled(its, i + 1,
             IF its[i].scheduled # 0 /\ (next = 0 \/ its[i].scheduled < next)
             THEN its[i].scheduled ELSE next)

\* arm_timerfd(): the time the timerfd is set to, kept in tfd_setp
arm_timerfd(its) == MinScheduled(its, 1, 0)

\* the daemon between calls: the list, what was published, tfd_setp and
\* the timeouts of libt, each [dat, wakeup] with the item's topic as dat
AlrmOut(its, ps, setp, tmo) ==
    [items |-> its, pubs |-> ps, tfd_setp |-> setp, timeouts |-> tmo]

\* the argument of a timeout whose item was freed
Freed(dat) == <<"freed">> \o dat

\* arm_timerfd() at the end of reschedule_alrm
reschedule_arm(its, ps, tmo) == AlrmOut(its, ps, arm_timerfd(its), tmo)

\* the end of reschedule_alrm for item i, already off
reschedule_next(its, i, ps, tmo, tnow) ==
    reschedule_arm(SetItem(its, i,
                       [its[i] EXCEPT !.scheduled =
                           IF its[i].valid = 0 \/ its[i].enabled = 0 THEN 0
                           ELSE IF its[i].wdays = 0 THEN 0
                           ELSE next_alarm(its[i], tnow)]),
                   ps, tmo)

\* reschedule_alrm after its first part set the state of item i to off
reschedule_off(its, i, ps, tmo, tnow) ==
    reschedule_next(its, i, ps \o pub_alrm_state(its, i), tmo, tnow)

\* a changed reschedule_alrm, for testing C21: the alarm stays as it is
reschedule_alrm_keep(its, i, ps, tmo, tnow) ==
    reschedule_next(its, i, ps, tmo, tnow)

\* a changed reschedule_alrm, for testing C38: every valid alarm is
\* scheduled, disabled or without days too
reschedule_alrm_always(its, i, ps, tmo, tnow) ==
    reschedule_arm(SetItem(its, i,
                       [its[i] EXCEPT !.state = ALRM_OFF,
                                      !.scheduled = IF its[i].valid = 0 THEN 0
                                                    ELSE next_alarm(its[i], tnow)]),
                   IF its[i].state # ALRM_OFF
                   THEN ps \o pub_alrm_state(SetItem(its, i,
                                 [its[i] EXCEPT !.state = ALRM_OFF]), i)
                   ELSE ps,
                   libt_remove_timeout(tmo, its[i].topic))

\* reschedule_alrm(it) (also dismiss_alrm) at time tnow
reschedule_alrm(its, i, ps, tmo, tnow) ==
    IF its[i].state # ALRM_OFF
    THEN reschedule_off(SetItem(its, i, [its[i] EXCEPT !.state = ALRM_OFF]),
                        i, ps, libt_remove_timeout(tmo, its[i].topic), tnow)
    ELSE reschedule_next(its, i, ps, libt_remove_timeout(tmo, its[i].topic), tnow)

\* the second part of on_alrm: its has item i on and no longer scheduled
on_alrm_on(its, i, ps, setp, tmo) ==
    AlrmOut(its, ps \o pub_alrm_state(its, i), setp, tmo)

\* a changed on_alrm, for testing C20: the skip flag is left as it is
on_alrm_sticky(its, i, ps, setp, tmo, tnow) ==
    IF its[i].skip # 0 /\ its[i].state = ALRM_OFF
    THEN reschedule_alrm(its, i,
             Append(ps, AlrmPub(its[i].topic \o <<"/", "s", "k", "i", "p">>, <<>>, TRUE)),
             tmo, tnow)
    ELSE on_alrm_on(SetItem(its, i, [its[i] EXCEPT !.scheduled = 0,
                                                    !.state = ALRM_ON]),
                    i, ps, setp, tmo)

\* on_alrm(it) at time tnow; a skipped alarm clears <topic>/skip and its flag
on_alrm(its, i, ps, setp, tmo, tnow) ==
    IF its[i].skip # 0 /\ its[i].state = ALRM_OFF
    THEN reschedule_alrm(SetItem(its, i, [its[i] EXCEPT !.skip = 0]), i,
             Append(ps, AlrmPub(its[i].topic \o <<"/", "s", "k", "i", "p">>, <<>>, TRUE)),
             tmo, tnow)
    ELSE on_alrm_on(SetItem(its, i, [its[i] EXCEPT !.scheduled = 0,
                                                    !.state = ALRM_ON]),
                    i, ps, setp, tmo)

\* the end of snooze_alrm: the timeout is set, the state follows
snooze_alrm_state(its, i, ps, setp, tmo) ==
    IF its[i].state # ALRM_SNOOZED
    THEN on_alrm_on(SetItem(its, i, [its[i] EXCEPT !.state = ALRM_SNOOZED]),
                    i, ps, setp, tmo)
    ELSE AlrmOut(its, ps, setp, tmo)

\* a changed snooze_alrm, for testing C26: a snoozed alarm keeps its timeout
snooze_alrm_once(its, i, ps, setp, tmo, tnow) ==
    IF its[i].valid = 0 \/ its[i].wdays = 0
    THEN reschedule_alrm(its, i, ps, tmo, tnow)
    ELSE snooze_alrm_state(its, i, ps, setp,
             IF its[i].state = ALRM_SNOOZED THEN tmo
             ELSE libt_add_timeouta(tmo, tnow + its[i].snooze_time, its[i].topic))

\* snooze_alrm(it) at time tnow: libt_add_timeout(it->snooze_time, on_alrm, it)
snooze_alrm(its, i, ps, setp, tmo, tnow) ==
    IF its[i].valid = 0 \/ its[i].wdays = 0
    THEN reschedule_alrm(its, i, ps, tmo, tnow)
    ELSE snooze_alrm_state(its, i, ps, setp,
             libt_add_timeouta(tmo, tnow + its[i].snooze_time, its[i].topic))

RECURSIVE DismissAll(_, _, _)
\* the loop of the global dismiss: every alarm that is not off
DismissAll(d, i, tnow) ==
    IF i > Len(d.items) THEN d
    ELSE IF d.items[i].state # ALRM_OFF
         THEN DismissAll(reschedule_alrm(d.items, i, d.pubs, d.timeouts, tnow),
                         i + 1, tnow)
    ELSE DismissAll(d, i + 1, tnow)

\* <name>/dismiss, or <prefix>//dismiss for all alarms
alrm_msg_dismiss(its, setp, tmo, m, tok, tnow) ==
    IF Len(m.topic) > Len(tok) /\ m.topic[Len(m.topic) - Len(tok)] = "/"
    THEN DismissAll(AlrmOut(its, <<>>, setp, tmo), 1, tnow)
    ELSE IF alrm_get_item(its, m.topic, tok, 0)[2] # 0
    THEN reschedule_alrm(its, alrm_get_item(its, m.topic, tok, 0)[2], <<>>, tmo, tnow)
    ELSE AlrmOut(its, <<>>, setp, tmo)

RECURSIVE SnoozeAll(_, _, _)
\* the loop of the global snooze: every alarm that is not off
SnoozeAll(d, i, tnow) ==
    IF i > Len(d.items) THEN d
    ELSE IF d.items[i].state # ALRM_OFF
         THEN SnoozeAll(snooze_alrm(d.items, i, d.pubs, d.tfd_setp, d.timeouts, tnow),
                        i + 1, tnow)
    ELSE SnoozeAll(d, i + 1, tnow)

\* a changed alrm_msg_snooze, for testing C37: <name>/snooze snoozes an
\* alarm that is off too
alrm_msg_snooze_off(its, i, setp, tmo, m, tok, tnow) ==
    IF Len(m.topic) > Len(tok) /\ m.topic[Len(m.topic) - Len(tok)] = "/"
    THEN SnoozeAll(AlrmOut(its, <<>>, setp, tmo), 1, tnow)
    ELSE IF i # 0
    THEN snooze_alrm(its, i, <<>>, setp, tmo, tnow)
    ELSE AlrmOut(its, <<>>, setp, tmo)

\* <name>/snooze for item i (0: none), or <prefix>//snooze for all alarms
alrm_msg_snooze(its, i, setp, tmo, m, tok, tnow) ==
    IF Len(m.topic) > Len(tok) /\ m.topic[Len(m.topic) - Len(tok)] = "/"
    THEN SnoozeAll(AlrmOut(its, <<>>, setp, tmo), 1, tnow)
    ELSE IF i # 0 /\ its[i].state # ALRM_OFF
    THEN snooze_alrm(its, i, <<>>, setp, tmo, tnow)
    ELSE AlrmOut(its, <<>>, setp, tmo)

\* the timeouts after free(it): those of the item keep the freed pointer
alrm_freed(tmo, dat) ==
    {IF t.dat = dat THEN [t EXCEPT !.dat = Freed(dat)] ELSE t : t \in tmo}

\* "flush potential MQTT leftovers" and drop_item
alrm_msg_remove(its, i, setp, tmo) ==
    AlrmOut(alrm_drop_item(its, i),
            << AlrmPub(its[i].topic \o <<"/", "r", "e", "p", "e", "a", "t">>, <<>>, TRUE),
               AlrmPub(its[i].topic \o <<"/", "s", "k", "i", "p">>, <<>>, TRUE),
               AlrmPub(its[i].topic \o <<"/", "e", "n", "a", "b", "l", "e">>, <<>>, TRUE),
               AlrmPub(its[i].topic \o <<"/", "s", "n", "o", "o", "z", "e", "t", "i", "m", "e">>,
                       <<>>, TRUE),
               AlrmPub(its[i].topic, <<>>, TRUE) >>,
            setp, alrm_freed(tmo, its[i].topic))

\* <name>/alarm with a payload: g is what get_item returned, ret strtohhmm
alrm_msg_set(g, setp, tmo, ret, tnow) ==
    IF ret >= 0
    THEN reschedule_alrm(SetItem(g[1], g[2], [g[1][g[2]] EXCEPT !.hhmm = ret,
                                                               !.valid = 1]),
                         g[2], <<>>, tmo, tnow)
    ELSE AlrmOut(g[1], <<>>, setp, tmo)

\* <name>/alarm
alrm_msg_alarm(g, setp, tmo, m, tnow) ==
    IF m.payload = <<>>
    THEN (IF g[2] = 0 THEN AlrmOut(g[1], <<>>, setp, tmo)
          ELSE alrm_msg_remove(g[1], g[2], setp, tmo))
    ELSE alrm_msg_set(g, setp, tmo, strtohhmm(m.payload), tnow)

\* <name>/repeat
alrm_msg_repeat(g, tmo, m, tnow) ==
    reschedule_alrm(SetItem(g[1], g[2], [g[1][g[2]] EXCEPT
                                !.wdays = strtowdays(m.payload)]),
                    g[2], <<>>, tmo, tnow)

\* <name>/skip: strtoul(payload ?: "0", 0, 0)
alrm_msg_skip(g, setp, tmo, m) ==
    AlrmOut(SetItem(g[1], g[2], [g[1][g[2]] EXCEPT !.skip = StrToUL(m.payload)]),
            <<>>, setp, tmo)

\* <name>/enable: strtoul(payload ?: "1", 0, 0)
alrm_msg_enable(g, setp, tmo, val, tnow) ==
    IF val # g[1][g[2]].enabled
    THEN reschedule_alrm(SetItem(g[1], g[2], [g[1][g[2]] EXCEPT !.enabled = val]),
                         g[2], <<>>, tmo, tnow)
    ELSE AlrmOut(g[1], <<>>, setp, tmo)

\* the switch of <name>/snoozetime on the character after the number; the
\* cases fall through down to the break of 'm'
SnoozeUnit(val, c) ==
    CASE c = "w" -> val * 7 * 24 * 60 * 60
      [] c = "d" -> val * 24 * 60 * 60
      [] c = "h" -> val * 60 * 60
      [] c = "m" -> val * 60
      [] OTHER -> val

\* <name>/snoozetime: strtoul(payload ?: "0", &endp, 0) and the unit
alrm_msg_snoozetime(g, setp, tmo, m) ==
    AlrmOut(SetItem(g[1], g[2], [g[1][g[2]] EXCEPT !.snooze_time =
                SnoozeUnit(StrToUL(m.payload),
                           IF Len(m.payload) > Len(DigitRun(m.payload))
                           THEN m.payload[Len(DigitRun(m.payload)) + 1] ELSE "")]),
            <<>>, setp, tmo)

\* the loop over alrm_states: the index of the payload, 3 without a match
alrm_state_val(payload) ==
    IF \E v \in 0..2 : alrm_states[v + 1] = payload
    THEN CHOOSE v \in 0..2 : alrm_states[v + 1] = payload
    ELSE 3

\* the switch (val) of the state topic; its has the new state of item i
alrm_state_switch(its, i, ps, setp, tmo, val, tnow) ==
    CASE val = ALRM_OFF -> reschedule_alrm(its, i, ps, tmo, tnow)
      [] val = ALRM_ON ->
             AlrmOut(its, ps, setp, libt_remove_timeout(tmo, its[i].topic))
      [] OTHER ->
             IF its[i].snooze_time = 0
             THEN reschedule_alrm(its, i, ps, tmo, tnow)
             ELSE AlrmOut(its, ps, setp,
                      libt_add_timeouta(tmo, tnow + its[i].snooze_time,
                                        its[i].topic))

\* the state topic once it->state = val is done
alrm_state_set(its, i, setp, tmo, val, tnow) ==
    alrm_state_switch(its, i, <<pub_alrm_event(its[i]), pub_alrm_count(its)>>,
                      setp, tmo, val, tnow)

\* a message on the topic of item i itself (0: none), the state of the
\* alarm, with a payload (see alrm_strcmp_null)
alrm_msg_state(its, i, setp, tmo, val, tnow) ==
    IF i = 0 \/ val >= 3 \/ its[i].state = val
    THEN AlrmOut(its, <<>>, setp, tmo)
    ELSE alrm_state_set(SetItem(its, i, [its[i] EXCEPT !.state = val]),
                        i, setp, tmo, val, tnow)

\* the suffixes my_mqtt_msg compares tok with
alrm_toks ==
    { <<"/", "d", "i", "s", "m", "i", "s", "s">>, <<"/", "s", "n", "o", "o", "z", "e">>,
      <<"/", "a", "l", "a", "r", "m">>, <<"/", "r", "e", "p", "e", "a", "t">>,
      <<"/", "s", "k", "i", "p">>, <<"/", "e", "n", "a", "b", "l", "e">>,
      <<"/", "s", "n", "o", "o", "z", "e", "t", "i", "m", "e">> }

\* the last branch of my_mqtt_msg calls strcmp(msg->payload, ...) with the
\* NULL payload of an empty message: the topic is that of an item
alrm_strcmp_null(its, m) ==
    /\ m.payload = <<>>
    /\ (IF LastSlash(m.topic) = 0 THEN <<>>
        ELSE StrFrom(m.topic, LastSlash(m.topic))) \notin alrm_toks
    /\ alrm_get_item(its, m.topic, <<>>, 0)[2] # 0

\* my_mqtt_msg of mqttalrm; tok is the last "/" of the topic and what follows
alrm_msg_tok(its, setp, tmo, m, tok, tnow) ==
    CASE tok = <<"/", "d", "i", "s", "m", "i", "s", "s">> ->
             alrm_msg_dismiss(its, setp, tmo, m, tok, tnow)
      [] tok = <<"/", "s", "n", "o", "o", "z", "e">> ->
             alrm_msg_snooze(its, alrm_get_item(its, m.topic, tok, 0)[2],
                             setp, tmo, m, tok, tnow)
      [] tok = <<"/", "a", "l", "a", "r", "m">> ->
             alrm_msg_alarm(alrm_get_item(its, m.topic, tok,
                                          IF m.payload = <<>> THEN 0 ELSE 1),
                            setp, tmo, m, tnow)
      [] tok = <<"/", "r", "e", "p", "e", "a", "t">> ->
             alrm_msg_repeat(alrm_get_item(its, m.topic, tok, 1), tmo, m, tnow)
      [] tok = <<"/", "s", "k", "i", "p">> ->
             alrm_msg_skip(alrm_get_item(its, m.topic, tok, 1), setp, tmo, m)
      [] tok = <<"/", "e", "n", "a", "b", "l", "e">> ->
             alrm_msg_enable(alrm_get_item(its, m.topic, tok, 1), setp, tmo,
                             IF m.payload = <<>> THEN 1 ELSE StrToUL(m.payload),
                             tnow)
      [] tok = <<"/", "s", "n", "o", "o", "z", "e", "t", "i", "m", "e">> ->
             alrm_msg_snoozetime(alrm_get_item(its, m.topic, tok, 1), setp, tmo, m)
      [] OTHER ->
             alrm_msg_state(its, alrm_get_item(its, m.topic, <<>>, 0)[2], setp,
                            tmo, alrm_state_val(m.payload), tnow)

alrm_my_mqtt_msg(its, setp, tmo, m, tnow) ==
    alrm_msg_tok(its, setp, tmo, m,
                 IF LastSlash(m.topic) = 0 THEN <<>>
                 ELSE StrFrom(m.topic, LastSlash(m.topic)),
                 tnow)

RECURSIVE AlrmExpired(_, _, _)
\* the loop of main() after the timerfd was read: on_alrm for every item
\* scheduled at tfd_setp, which on_alrm may change on the way
AlrmExpired(d, i, tnow) ==
    IF i > Len(d.items) THEN d
    ELSE IF d.tfd_setp # 0 /\ d.items[i].scheduled = d.tfd_setp
         THEN AlrmExpired(on_alrm(d.items, i, d.pubs, d.tfd_setp, d.timeouts, tnow),
                          i + 1, tnow)
    ELSE AlrmExpired(d, i + 1, tnow)

\* "re-arm": arm_timerfd() after the loop
alrm_rearm(d) == reschedule_arm(d.items, d.pubs, d.timeouts)

\* a readable timerfd in main(): the loop, then "re-arm"
alrm_timerfd(its, setp, tmo, tnow) ==
    alrm_rearm(AlrmExpired(AlrmOut(its, <<>>, setp, tmo), 1, tnow))

RECURSIVE TimeChanged(_, _, _)
\* the loop of time_changed(): an alarm scheduled within snooze_time (or a
\* minute) from now fires, another scheduled alarm is calculated again
TimeChanged(d, i, tnow) ==
    IF i > Len(d.items) THEN d
    ELSE IF /\ d.items[i].scheduled # 0
            /\ d.items[i].scheduled >= tnow
            /\ d.items[i].scheduled <
                 tnow + (IF d.items[i].snooze_time # 0
                         THEN d.items[i].snooze_time ELSE 60)
         THEN TimeChanged(on_alrm(d.items, i, d.pubs, d.tfd_setp, d.timeouts, tnow),
                          i + 1, tnow)
    ELSE IF d.items[i].scheduled # 0
         THEN TimeChanged([d EXCEPT !.items[i].scheduled =
                                        next_alarm(d.items[i], tnow)],
                          i + 1, tnow)
    ELSE TimeChanged(d, i + 1, tnow)

\* the read of the timerfd fails with ECANCELED: time_changed(), "re-arm"
alrm_time_changed(its, setp, tmo, tnow) ==
    alrm_rearm(TimeChanged(AlrmOut(its, <<>>, setp, tmo), 1, tnow))

\* libt_flush() runs timeout t, which is due: on_alrm(it) for its item i
alrm_flush(its, i, setp, tmo, t, tnow) ==
    on_alrm(its, i, <<>>, setp, tmo \ {t}, tnow)


-----------------------------------------------------------------------------
(* mqttlogic: the daemon as a state machine                                *)

\* Bounds of the model: a run delivers at most MaxMsgs messages.
MaxMsgs == 5

LogicMsgs == {[topic |-> k \o mqtt_suffix, payload |-> e] :
                 k \in ItemKeys, e \in Exprs \cup {<<>>}}

DataMsgs == [topic : DataTopics, payload : Payloads]

\* what mosquitto_publish can return: MOSQ_ERR_SUCCESS, or with a flaky
\* connection also MOSQ_ERR_NO_CONN (4) or a negative value
PubRets == IF broker = "ok" THEN {0} ELSE {0, 4, -1}

NoMsg == [topic |-> <<>>, payload |-> <<>>]

NoRun == [phase |-> "idle"]

InitLogic ==
    /\ items = <<>>
    /\ topics = <<>>
    /\ msg = NoMsg
    /\ pubs = <<>>
    /\ runs = <<>>
    /\ freed = <<>>
    /\ redelivered = FALSE
    /\ alive = TRUE
    /\ nmsg = 0
    /\ rst = NoRun

\* mosquitto_loop delivers message m: one call of my_mqtt_msg
Deliver(m) ==
    /\ alive
    /\ nmsg < MaxMsgs
    /\ nmsg' = nmsg + 1
    /\ \E prets \in [1..Cardinality(ItemKeys) -> PubRets] :
         \E o \in {my_mqtt_msg(items, topics, m, build, prets)} :
             /\ items' = o.items
             /\ topics' = o.topics
             /\ pubs' = o.pubs
             /\ runs' = o.runs
             /\ freed' = o.freed
             /\ alive' = ~o.exit
    /\ msg' = m
    /\ redelivered' = (nmsg > 0 /\ m = msg)
    /\ UNCHANGED <<broker, build, rst>>

\* a message on <name>/logic arrives
LogicSet == \E m \in LogicMsgs : Deliver(m)

\* a message on a plain topic arrives
Data == \E m \in DataMsgs : Deliver(m)

\* The spec payloads of Exprs contain no operator that casts to int and
\* none that can produce a NaN, so no run of Spec reads `build`: it is
\* started with the x86 outcomes alone.
X86 == [icast |-> IntMin, nanneg |-> TRUE]

Init == InitLogic /\ broker = "ok" /\ build = X86

Next == LogicSet \/ Data

Spec == Init /\ [][Next]_vars

-----------------------------------------------------------------------------
(* A second state machine: do_item on one item, at the call my_mqtt_msg     *)
(* makes right after it installed the item's expression.  The expression     *)
(* is a program over every operator of the lookup table.                     *)

MaxProgLen == 2

\* the tokens of the programs: every entry of lookups, two constants and
\* one topic
RunTokens ==
    {lookups[i][1] : i \in 1..Len(lookups)}
        \cup {<<"2">>, <<"3">>, <<"$", "{", "a", "}">>}

\* longer programs, which underflow after some nodes have run or not at all
SamplePrograms ==
    { <<<<"3">>, <<"2">>, <<"+">>>>,
      <<<<"2">>, <<"3">>, <<"*", "*">>>>,
      <<<<"3">>, <<"d", "u", "p">>, <<"*">>>>,
      <<<<"3">>, <<"2">>, <<"s", "w", "a", "p">>, <<"-">>>>,
      <<<<"3">>, <<"4">>, <<"+">>>>,
      <<<<"5">>, <<"d", "u", "p">>, <<"*">>>>,
      <<<<"1">>, <<"2">>, <<"s", "w", "a", "p">>, <<"-">>>>,
      <<<<"1">>, <<"1", ".", "5">>, <<"<">>>>,
      <<<<"1", ".", "2">>, <<"1", ".", "5">>, <<">">>>>,
      <<<<"1", ".", "5">>, <<"1">>, <<">">>>>,
      <<<<"2">>, <<"2">>, <<"+">>, <<"+">>>>,
      <<<<"2">>, <<"d", "u", "p">>, <<"*">>, <<"s", "w", "a", "p">>>>,
      <<<<"2">>, <<"!">>, <<"~">>, <<"&", "&">>, <<"3">>>>,
      <<<<"$", "{", "a", "}">>, <<"2">>, <<"<">>, <<">">>, <<"3">>, <<"3">>, <<"+">>>> }

Programs ==
    UNION {[1..n -> RunTokens] : n \in 1..MaxProgLen} \cup SamplePrograms

RECURSIVE JoinToks(_)
\* the payload text of a program: its tokens separated by one space
JoinToks(toks) ==
    IF toks = <<>> THEN <<>>
    ELSE IF Len(toks) = 1 THEN toks[1]
    ELSE toks[1] \o <<" ">> \o JoinToks(Tail(toks))

\* what the item last published, before the new expression was installed
LastValues == {None, Some(<<"4", ".", "0", "0", "0", "0", "0", "0">>)}

\* the cache before the spec message: empty, or a = "2"
RunCaches == {<<>>, <<[NewTopic(<<"a">>) EXCEPT !.value = <<"2">>]>>}

InitRun ==
    /\ \E p \in Programs, lv \in LastValues, tp \in RunCaches :
          LET logic == rpn_parse(JoinToks(p))
          IN  /\ items = <<[NewItem(<<"n">>, 1) EXCEPT !.logic = logic,
                                                        !.lastvalue = lv]>>
              /\ topics = rpn_ref(tp, logic)
              /\ rst = [phase |-> "installed", prog |-> p]
    /\ build \in UBChoices
    /\ msg = NoMsg /\ pubs = <<>> /\ runs = <<>> /\ freed = <<>>
    /\ redelivered = FALSE /\ alive = TRUE /\ nmsg = 0 /\ broker = "ok"

\* do_item(it), "ready, first run"
RunItem ==
    /\ rst.phase = "installed"
    /\ \E pret \in PubRets :
         \E d \in {do_item(items[1], topics, build, pret)} :
             /\ items' = <<d.it>>
             /\ pubs' = d.pub
             /\ runs' = <<d.run>>
             /\ alive' = ~d.exit
    /\ rst' = [rst EXCEPT !.phase = "ran"]
    /\ UNCHANGED <<topics, msg, freed, redelivered, broker, build, nmsg>>

NextRun == RunItem

SpecRun == InitRun /\ [][NextRun]_vars

-----------------------------------------------------------------------------
(* A third state machine: mqttlogic with one item whose expression holds a  *)
(* reference flagged changed-only.  rpn_lookup_env tests rpn->options for    *)
(* the character 1; the parser that stores the flag of a reference in        *)
(* rpn->options is not part of rpnlogic.c as given (rpn_parse leaves the     *)
(* field NULL), so the chain is built here as the parser is described to     *)
(* build it.  The item is installed by the code of my_mqtt_msg that follows  *)
(* rpn_parse; data messages follow.                                          *)

\* the chain of "${a} flagged changed-only, ${b}"
FlaggedChain ==
    << [rpn_create("rpn_do_env") EXCEPT !.topic = Some(<<"a">>),
                                        !.options = Some(<<"1">>)],
       [rpn_create("rpn_do_env") EXCEPT !.topic = Some(<<"b">>)] >>

\* the cache before the spec message
FlagCaches ==
    { <<>>,
      <<[NewTopic(<<"a">>) EXCEPT !.value = <<"2">>]>>,
      <<[NewTopic(<<"a">>) EXCEPT !.value = <<"2">>],
        [NewTopic(<<"b">>) EXCEPT !.value = <<"1", ".", "5">>]>> }

InitFlag ==
    /\ \E tp \in FlagCaches :
         \E o \in {LogicSetParsed(<<NewItem(<<"n">>, 1)>>, 1, tp, None,
                                  FlaggedChain, X86, 0)} :
             /\ items = o.items /\ topics = o.topics /\ pubs = o.pubs
             /\ runs = o.runs /\ freed = o.freed /\ alive = ~o.exit
    /\ build = X86 /\ broker = "ok"
    /\ msg = NoMsg /\ redelivered = FALSE /\ nmsg = 0
    /\ rst = [phase |-> "flagged"]

NextFlag == Data

SpecFlag == InitFlag /\ [][NextFlag]_vars

-----------------------------------------------------------------------------
(* The item registries of mqttlogic, mqttimer and mqttalrm under lookups    *)
(* of topics that carry a suffix, and removals.                             *)

Daemons == {"mqttlogic", "mqttimer", "mqttalrm"}

RegNames == {<<"f", "o", "o">>, <<"f", "o", "o", "1">>, <<"f", "o", "o", "1", "0">>}

\* the suffixes each daemon calls get_item with
RegSuffixes(d) ==
    CASE d = "mqttlogic" -> {mqtt_suffix}
      [] d = "mqttimer"  -> {timer_mqtt_suffix}
      [] d = "mqttalrm"  -> {<<"/", "a", "l", "a", "r", "m">>, <<"/", "s", "k", "i", "p">>}

\* get_item of daemon d for a topic ending in suffix
RegGetItem(d, its, topic, suffix, create) ==
    CASE d = "mqttlogic" -> get_item(its, topic, Len(topic) - Len(suffix), create)
      [] d = "mqttimer"  -> timer_get_item(its, topic, suffix, create, None)
      [] d = "mqttalrm"  -> alrm_get_item(its, topic, suffix, create)

InitReg ==
    /\ items = <<>> /\ topics = <<>> /\ msg = NoMsg /\ pubs = <<>>
    /\ runs = <<>> /\ freed = <<>> /\ redelivered = FALSE /\ alive = TRUE
    /\ nmsg = 0 /\ broker = "ok" /\ build = X86
    /\ \E d \in Daemons : rst = [phase |-> "registry", daemon |-> d]

\* one call of get_item; rst keeps the call, the list before it and the
\* index it returned
RegLookup ==
    \E name \in RegNames, create \in {0, 1} :
        \E sfx \in RegSuffixes(rst.daemon) :
            \E g \in {RegGetItem(rst.daemon, items, name \o sfx, sfx, create)} :
                /\ items' = g[1]
                /\ rst' = [phase |-> "looked", daemon |-> rst.daemon,
                           name |-> name, create |-> create,
                           before |-> items, ret |-> g[2]]
                /\ UNCHANGED <<topics, msg, pubs, runs, freed, redelivered,
                               alive, broker, build, nmsg>>

\* one call of drop_item (the three daemons unlink alike)
RegDrop ==
    \E i \in 1..Len(items) :
        /\ items' = drop_item(items, i)
        /\ rst' = [phase |-> "dropped", daemon |-> rst.daemon]
        /\ UNCHANGED <<topics, msg, pubs, runs, freed, redelivered,
                       alive, broker, build, nmsg>>

NextReg == RegLookup \/ RegDrop

SpecReg == InitReg /\ [][NextReg]_vars

-----------------------------------------------------------------------------
(* mqttimer receiving one timer spec: the pure conversion of its tokens.    *)

DelayNumbers ==
    {<<"0">>, <<"1">>, <<"2">>, <<"1", "0">>, <<"3", "0">>, <<"1", ".", "5">>}

\* no letter, the four units in both cases, and a letter that is no unit
DelayUnits ==
    {<<>>, <<"m">>, <<"M">>, <<"h">>, <<"H">>, <<"d">>, <<"D">>, <<"w">>, <<"W">>,
     <<"s">>}

\* the rest of the payload: nothing, or a reset value
DelayResets == {<<>>, <<" ", "o", "f", "f">>}

WriteSuffixes == {None, Some(<<"/", "s", "e", "t">>)}

\* hist is the record of what happened last to the item: up to three of
\* "value" (a value that is not the reset value arrived), "reset" (the reset
\* value arrived), "fired" (reset_item ran) and "removed" (drop_item ran)
TimerIdle(wsfx) ==
    [phase |-> "idle", now |-> 0, timeouts |-> {}, wsfx |-> wsfx,
     fired |-> None, due |-> NAN, hist |-> <<>>]

InitTimer ==
    /\ items = <<>> /\ topics = <<>> /\ msg = NoMsg /\ pubs = <<>>
    /\ runs = <<>> /\ freed = <<>> /\ redelivered = FALSE /\ alive = TRUE
    /\ nmsg = 0 /\ broker = "ok" /\ build = X86
    /\ \E wsfx \in WriteSuffixes : rst = TimerIdle(wsfx)

\* a message on a/timer arrives at a daemon without items
DelaySpecIn ==
    /\ rst.phase = "idle"
    /\ \E n \in DelayNumbers, u \in DelayUnits, r \in DelayResets :
         \E m \in {[topic |-> <<"a">> \o timer_mqtt_suffix, payload |-> n \o u \o r]} :
           \E o \in {timer_my_mqtt_msg(items, rst.timeouts, m, rst.now, rst.wsfx, build)} :
             /\ items' = o.items
             /\ msg' = m
             /\ nmsg' = nmsg + 1
             /\ rst' = [phase |-> "parsed", num |-> n, unit |-> u, reset |-> r,
                        timeouts |-> o.timeouts, wsfx |-> rst.wsfx]
    /\ UNCHANGED <<topics, pubs, runs, freed, redelivered, alive, broker, build>>

NextDelay == DelaySpecIn

SpecDelay == InitTimer /\ [][NextDelay]_vars

-----------------------------------------------------------------------------
(* mqttimer as a state machine: messages, the clock and libt_flush.         *)

\* Bound of the model: the clock stops at MaxTime seconds.
MaxTime == 4

TimerMsgs ==
    [topic : {<<"a">> \o timer_mqtt_suffix},
     payload : {<<"2">>, <<"1", " ", "o", "f", "f">>, <<" ">>, <<>>}]
    \cup [topic : {<<"a">>}, payload : {<<"1">>, <<"0">>, <<"o", "f", "f">>}]

\* the timeouts libt_flush finds due
TimerDue(tmo, now) ==
    {t \in tmo : ~IsNaN(t.wakeup) /\ ~NumLess(FromInt(now), t.wakeup)}

\* index of the item a timeout was set for
TimerItem(its, dat) == CHOOSE i \in 1..Len(its) : its[i].topic = dat

\* the last three entries of hist h followed by event e
HistAdd(h, e) ==
    IF Len(h) < 3 THEN Append(h, e) ELSE Append(SubSeq(h, 2, 3), e)

\* hist after my_mqtt_msg handled m: g and d are what the two get_item
\* calls of my_mqtt_msg return; "removed" records that the item was dropped
TimerHistOf(h, its, m, g, d) ==
    IF g[2] # 0 THEN (IF m.payload = <<>> THEN HistAdd(h, "removed") ELSE h)
    ELSE IF d[2] = 0 THEN h
    ELSE HistAdd(h, IF its[d[2]].resetvalue = m.payload THEN "reset" ELSE "value")

TimerHist(h, its, m, wsfx) ==
    TimerHistOf(h, its, m,
                timer_get_item(its, m.topic, timer_mqtt_suffix,
                               IF m.payload = <<>> THEN 0 ELSE 1, wsfx),
                timer_get_item(its, m.topic, <<>>, 0, wsfx))

\* mosquitto_loop delivers message m: one call of my_mqtt_msg
TimerMsgIn ==
    /\ alive
    /\ nmsg < MaxMsgs
    /\ \E m \in TimerMsgs :
         \E o \in {timer_my_mqtt_msg(items, rst.timeouts, m, rst.now, rst.wsfx, build)} :
             /\ items' = o.items
             /\ msg' = m
             /\ rst' = [rst EXCEPT !.phase = "msg", !.timeouts = o.timeouts,
                                   !.fired = None, !.due = NAN,
                                   !.hist = TimerHist(rst.hist, items, m, rst.wsfx)]
    /\ nmsg' = nmsg + 1
    /\ pubs' = <<>>
    /\ UNCHANGED <<topics, runs, freed, redelivered, alive, broker, build>>

\* libt_flush runs reset_item for the earliest timeout that is due
TimerFire ==
    /\ alive
    /\ \E t \in TimerDue(rst.timeouts, rst.now) :
         /\ \A u \in TimerDue(rst.timeouts, rst.now) : ~NumLess(u.wakeup, t.wakeup)
         /\ \E i \in {TimerItem(items, t.dat)}, pret \in PubRets :
              /\ pubs' = <<reset_publish(items[i], rst.wsfx, pret)>>
              /\ alive' = (pret >= 0)
              /\ items' = SetItem(items, i, reset_item(items[i]))
              /\ rst' = [rst EXCEPT !.phase = "fired",
                                    !.timeouts = rst.timeouts \ {t},
                                    !.fired = Some(items[i]), !.due = t.wakeup,
                                    !.hist = HistAdd(rst.hist, "fired")]
    /\ UNCHANGED <<topics, msg, runs, freed, redelivered, broker, build, nmsg>>

\* a second passes while nothing is due
TimerTick ==
    /\ alive
    /\ rst.now < MaxTime
    /\ TimerDue(rst.timeouts, rst.now) = {}
    /\ rst' = [rst EXCEPT !.phase = "tick", !.now = rst.now + 1,
                          !.fired = None, !.due = NAN]
    /\ pubs' = <<>>
    /\ UNCHANGED <<items, topics, msg, runs, freed, redelivered, alive, broker,
                   build, nmsg>>

NextTimer == TimerMsgIn \/ TimerFire \/ TimerTick

SpecTimer == InitTimer /\ [][NextTimer]_vars

-----------------------------------------------------------------------------
(* mqttalrm as a state machine: messages, the clock and the timerfd.        *)

\* Bound of the model: the clock stops MaxHours hours after 1970-01-01 00:00.
MaxHours == 26

AlrmKey == <<"a", "/", "x">>

AlrmMsgs ==
    [topic : {AlrmKey \o <<"/", "a", "l", "a", "r", "m">>},
     payload : {<<"0", "1", ":", "0", "0">>, <<>>}]
    \cup [topic : {AlrmKey \o <<"/", "s", "k", "i", "p">>},
          payload : {<<"1">>, <<>>}]
    \cup [topic : {AlrmKey \o <<"/", "e", "n", "a", "b", "l", "e">>},
          payload : {<<"0">>, <<"1">>}]
    \cup [topic : {AlrmKey \o <<"/", "r", "e", "p", "e", "a", "t">>},
          payload : {<<"m", "t", "w", "t", "-", "s", "s">>}]
    \cup [topic : {AlrmKey \o <<"/", "d", "i", "s", "m", "i", "s", "s">>},
          payload : {<<"1">>}]

InitAlrm ==
    /\ items = <<>> /\ topics = <<>> /\ msg = NoMsg /\ pubs = <<>>
    /\ runs = <<>> /\ freed = <<>> /\ redelivered = FALSE /\ alive = TRUE
    /\ nmsg = 0 /\ broker = "ok" /\ build = X86
    /\ rst = [phase |-> "idle", now |-> 0, tfd_setp |-> 0, timeouts |-> {}]

\* the timerfd is readable: it was set to a time that has come
AlrmReadable == rst.tfd_setp # 0 /\ rst.now >= rst.tfd_setp

\* mosquitto_loop_read delivers message m: one call of my_mqtt_msg
AlrmMsgIn ==
    /\ nmsg < MaxMsgs
    /\ \E m \in AlrmMsgs :
         \E o \in {alrm_my_mqtt_msg(items, rst.tfd_setp, rst.timeouts, m, rst.now)} :
             /\ items' = o.items
             /\ pubs' = o.pubs
             /\ msg' = m
             /\ rst' = [phase |-> "msg", now |-> rst.now, tfd_setp |-> o.tfd_setp,
                        timeouts |-> o.timeouts]
    /\ nmsg' = nmsg + 1
    /\ UNCHANGED <<topics, runs, freed, redelivered, alive, broker, build>>

\* poll reports the timerfd: on_alrm for the alarms of this time, re-arm
AlrmFire ==
    /\ AlrmReadable
    /\ \E o \in {alrm_timerfd(items, rst.tfd_setp, rst.timeouts, rst.now)} :
         /\ items' = o.items
         /\ pubs' = o.pubs
         /\ rst' = [phase |-> "fired", now |-> rst.now, tfd_setp |-> o.tfd_setp,
                    timeouts |-> o.timeouts]
    /\ UNCHANGED <<topics, msg, runs, freed, redelivered, alive, broker, build,
                   nmsg>>

\* an hour passes while the timerfd is not readable
AlrmTick ==
    /\ ~AlrmReadable
    /\ rst.now < MaxHours * 3600
    /\ rst' = [phase |-> "tick", now |-> rst.now + 3600, tfd_setp |-> rst.tfd_setp,
                timeouts |-> rst.timeouts]
    /\ pubs' = <<>>
    /\ UNCHANGED <<items, topics, msg, runs, freed, redelivered, alive, broker,
                   build, nmsg>>

NextAlrm == AlrmMsgIn \/ AlrmFire \/ AlrmTick

SpecAlrm == InitAlrm /\ [][NextAlrm]_vars

-----------------------------------------------------------------------------
(* A fourth state machine: mqttlogic receiving spec payloads that hold a    *)
(* token rpn_parse does not know, among valid ones and data messages.        *)

ExprBad == <<"$", "{", "a", "}", " ", "2", " ", "b", "o", "g", "u", "s">>

ExprBadFmt == <<"$", "{", "b", "}", " ", "+", "x", " ", "+", " ", "%", ".", "0", "f">>

BadExprs == {ExprBad, ExprBadFmt}

BadLogicMsgs ==
    {[topic |-> <<"n">> \o mqtt_suffix, payload |-> e] :
        e \in BadExprs \cup {ExprSum, ExprFmt}}

BadDataMsgs == [topic : {<<"a">>, <<"b">>}, payload : {<<"2">>, <<"1", ".", "5">>}]

LogicSetBad == \E m \in BadLogicMsgs : Deliver(m)

DataBad == \E m \in BadDataMsgs : Deliver(m)

NextBad == LogicSetBad \/ DataBad

SpecBad == Init /\ [][NextBad]_vars


-----------------------------------------------------------------------------
(* Claims about mqttlogic: helpers                                         *)

\* the number of nodes of a chain that name the topic
NodeCount(rpn, name) ==
    Cardinality({i \in 1..Len(rpn) :
                    rpn[i].topic # None /\ rpn[i].topic[1] = name})

RECURSIVE TotalNodes(_, _)
\* the number of ${name} nodes in the chains of all items of the list
TotalNodes(its, name) ==
    IF its = <<>> THEN 0
    ELSE NodeCount(Head(its).logic, name) + TotalNodes(Tail(its), name)

\* the topics a chain names
RefSet(rpn) == {rpn[i].topic[1] : i \in {j \in 1..Len(rpn) : rpn[j].topic # None}}

\* the last handler call was given a data message / a spec message
WasData == nmsg > 0 /\ ~IsLogicTopic(msg.topic)

WasLogic == nmsg > 0 /\ IsLogicTopic(msg.topic)

\* the publish calls of the last handler call on a topic
PubsOn(name) == {k \in 1..Len(pubs) : pubs[k].topic = name}

\* the do_item calls of the last handler call for the item named name
RunsOf(name) == {k \in 1..Len(runs) : runs[k].topic = name}

\* the item of the list with this topic (as struct item), when there is one
HasItem(name) == \E i \in 1..Len(items) : items[i].topic = name

ItemOf(name) == items[CHOOSE i \in 1..Len(items) : items[i].topic = name]

(* C1: after a data message on a cached topic T has been handled, every    *)
(* item whose expression names ${T} and whose own topic is not T has been   *)
(* re-evaluated by that call, and its result has been published when the    *)
(* formatted value differs from the item's last published value.            *)
C1_DependentsReevaluated ==
    (WasData /\ FindTopic(topics, msg.topic) # 0) =>
        \A i \in 1..Len(items) :
            (rpn_has_ref(items[i].logic, msg.topic) = 1
             /\ items[i].topic # msg.topic) =>
                /\ RunsOf(items[i].topic) # {}
                /\ \A k \in RunsOf(items[i].topic) :
                      (runs[k].buf # None /\ runs[k].buf # runs[k].last) =>
                          \E p \in PubsOn(items[i].topic) :
                              pubs[p].payload = runs[k].buf[1]

(* C2: between handler calls every cached topic's reference count equals    *)
(* the number of ${topic} nodes in the expressions of all items.            *)
C2_RefCountIsNodeCount ==
    \A i \in 1..Len(topics) :
        topics[i].ref = TotalNodes(items, topics[i].topic)

(* C3: no cached topic's reference count is ever negative.                  *)
C3_RefCountNonNegative ==
    \A i \in 1..Len(topics) : topics[i].ref >= 0

\* a chain that names exactly the two topics p and q, each in one node
NamesOnce(rpn, p, q) ==
    /\ p # q
    /\ RefSet(rpn) = {p, q}
    /\ NodeCount(rpn, p) = 1
    /\ NodeCount(rpn, q) = 1

Cached(tp, name) == FindTopic(tp, name) # 0

\* the key of the item a spec message is for
KeyOf(m) == SubSeq(m.topic, 1, Len(m.topic) - mqtt_suffixlen)

(* C4: a spec message that replaces an expression naming {A, B} (once      *)
(* each) by one naming {B, C} (once each), with A, B and C cached, changes   *)
(* the reference counts by -1 for A, 0 for B, +1 for C and by 0 for every    *)
(* other cached topic, and caches no topic.                                  *)
C4_ReplaceStep(A, B, C) ==
    /\ nmsg' = nmsg + 1
    /\ IsLogicTopic(msg'.topic)
    /\ msg'.payload # <<>>
    /\ Len(freed') = 1
    /\ NamesOnce(freed'[1], A, B)
    /\ \E i \in 1..Len(items') :
          items'[i].topic = KeyOf(msg') /\ NamesOnce(items'[i].logic, B, C)
    /\ A # C
    /\ Cached(topics, A) /\ Cached(topics, B) /\ Cached(topics, C)

C4_ReplaceDeltas ==
    [][\A A, B, C \in DataTopics :
          C4_ReplaceStep(A, B, C) =>
              /\ Len(topics') = Len(topics)
              /\ \A i \in 1..Len(topics) :
                    /\ topics'[i].topic = topics[i].topic
                    /\ topics'[i].ref = topics[i].ref
                          + (IF topics[i].topic = A THEN -1
                             ELSE IF topics[i].topic = C THEN 1 ELSE 0)]_vars

\* a state right after such a replacement
C4_Witness ==
    \E A, B, C \in DataTopics :
        /\ WasLogic /\ msg.payload # <<>>
        /\ Len(freed) = 1 /\ NamesOnce(freed[1], A, B)
        /\ HasItem(KeyOf(msg)) /\ NamesOnce(ItemOf(KeyOf(msg)).logic, B, C)
        /\ A # C
        /\ Cached(topics, A) /\ Cached(topics, B) /\ Cached(topics, C)

(* C5: the spec message that deletes an item decrements the reference      *)
(* count of every cached topic once per node of the deleted expression that  *)
(* names it.                                                                 *)
C5_DeleteDecrements ==
    [][(/\ nmsg' = nmsg + 1
        /\ IsLogicTopic(msg'.topic)
        /\ msg'.payload = <<>>
        /\ Len(freed') = 1) =>
            /\ Len(topics') = Len(topics)
            /\ \A i \in 1..Len(topics) :
                  topics'[i].ref =
                      topics[i].ref - NodeCount(freed'[1], topics[i].topic)]_vars

(* C6: a data message on X, where X is an item's own topic, re-evaluates    *)
(* no item X and re-evaluates every other item whose expression names ${X}.  *)
C6_OnlyOwnItemSkipped ==
    (WasData /\ Cached(topics, msg.topic) /\ HasItem(msg.topic)) =>
        /\ RunsOf(msg.topic) = {}
        /\ \A i \in 1..Len(items) :
              (items[i].topic # msg.topic
               /\ rpn_has_ref(items[i].logic, msg.topic) = 1) =>
                  RunsOf(items[i].topic) # {}

(* C7: an evaluation publishes only when the formatted result differs from  *)
(* the item's last published string; when it publishes, the payload is the   *)
(* formatted result and becomes the last published string; when it does not  *)
(* publish, the last published string is as before.                          *)
C7_PublishOnlyOnChange ==
    \A k \in 1..Len(runs) :
        LET r == runs[k]
            P == PubsOn(r.topic)
        IN  /\ HasItem(r.topic)
            /\ P # {} => /\ r.buf # None
                         /\ r.buf # r.last
                         /\ \A p \in P : pubs[p].payload = r.buf[1]
                         /\ ItemOf(r.topic).lastvalue = r.buf
            /\ P = {} => ItemOf(r.topic).lastvalue = r.last

\* an evaluation whose value changed (2 to 1.5) but whose text under %.0f
\* did not, so that nothing is published; and, in the same run, one of a
\* changed text that was published
C7_Witness ==
    /\ WasData
    /\ \E k \in 1..Len(runs) :
          /\ runs[k].buf = Some(<<"2">>)
          /\ runs[k].last = Some(<<"2">>)
          /\ runs[k].stack = <<StrToD(<<"1", ".", "5">>)>>
          /\ PubsOn(runs[k].topic) = {}

(* C8: when a data message is delivered a second time in a row, no item     *)
(* publishes on the second delivery; and no handler call publishes twice on  *)
(* one topic.                                                                *)
C8_RedeliveryIsSilent ==
    /\ (redelivered /\ WasData) => pubs = <<>>
    /\ \A p, q \in 1..Len(pubs) : pubs[p].topic = pubs[q].topic => p = q

\* a second delivery that re-evaluated an item and published nothing
C8_Witness ==
    /\ redelivered /\ WasData
    /\ runs # <<>>
    /\ \E k \in 1..Len(runs) : runs[k].buf # None /\ runs[k].last = runs[k].buf

(* C9: for an item whose expression is ${a} ${b} + (default format) and     *)
(* whose own topic is neither a nor b: once a and b are cached with values   *)
(* x and y, the last payload the item published is the text of x+y; a data   *)
(* message makes it publish at most once, and not at all when the message's  *)
(* topic is neither a nor b.                                                 *)
C9_SumFollowsInputs ==
    \A i \in 1..Len(items) :
        (/\ items[i].logic = rpn_parse(ExprSum)
         /\ items[i].fmt = None
         /\ items[i].topic \notin {<<"a">>, <<"b">>}) =>
            /\ (Cached(topics, <<"a">>) /\ Cached(topics, <<"b">>)) =>
                  items[i].lastvalue =
                      Some(FormatF(NumAdd(
                          StrToD(topics[FindTopic(topics, <<"a">>)].value),
                          StrToD(topics[FindTopic(topics, <<"b">>)].value),
                          build), 6))
            /\ WasData =>
                  /\ Cardinality(PubsOn(items[i].topic)) <= 1
                  /\ msg.topic \notin {<<"a">>, <<"b">>} =>
                        PubsOn(items[i].topic) = {}

\* the operands the claim gives each operator; 0 for a token that pushes
C10_Arity(tok) ==
    IF tok \in {<<"+">>, <<"-">>, <<"*">>, <<"/">>, <<"*", "*">>, <<"&">>,
                <<"|">>, <<"^">>, <<"&", "&">>, <<"|", "|">>, <<"<">>, <<">">>,
                <<"s", "w", "a", "p">>} THEN 2
    ELSE IF tok \in {<<"~">>, <<"!">>, <<"d", "u", "p">>} THEN 1
    ELSE 0

\* the stack depth a token leaves, given the depth n it finds
C10_DepthAfter(tok, n) ==
    IF C10_Arity(tok) = 2 /\ tok # <<"s", "w", "a", "p">> THEN n - 1
    ELSE IF tok = <<"d", "u", "p">> \/ C10_Arity(tok) = 0 THEN n + 1
    ELSE n

RECURSIVE C10_Underflow(_, _, _)
\* index of the first token of prog[k..] that finds fewer operands than its
\* arity on a stack of depth n, 0 when there is none
C10_Underflow(prog, k, n) ==
    IF k > Len(prog) THEN 0
    ELSE IF n < C10_Arity(prog[k]) THEN k
    ELSE C10_Underflow(prog, k + 1, C10_DepthAfter(prog[k], n))

(* C10: when a node of the program finds fewer operands than its arity,     *)
(* rpn_run returns failure with the stack as the nodes before it left it,    *)
(* the item publishes nothing and its last published value is unchanged.     *)
C10_UnderflowStops ==
    (rst.phase = "ran" /\ C10_Underflow(rst.prog, 1, 0) # 0) =>
        LET k      == C10_Underflow(rst.prog, 1, 0)
            before == rpn_run(<<>>, SubSeq(items[1].logic, 1, k - 1), topics, build)
        IN  /\ runs[1].ret < 0
            /\ before[1] = 0
            /\ runs[1].stack = before[2]
            /\ pubs = <<>>
            /\ items[1].lastvalue = runs[1].last

\* an underflow at a later node, with values left on the stack and a last
\* published value to keep
C10_Witness ==
    /\ rst.phase = "ran"
    /\ C10_Underflow(rst.prog, 1, 0) > 1
    /\ runs[1].stack # <<>>
    /\ runs[1].last # None
    /\ items[1].lastvalue = runs[1].last
    /\ pubs = <<>>

\* the integer a finite integral double stands for (both zeros are 0)
C11_Int(x) == x.s * x.n

\* the integer a constant token of digits stands for
C11_Const(tok) == DecVal(tok, 0)

\* tokens the claim speaks of: digit constants, + - * / **, dup and swap
C11_IsConst(tok) == \A i \in 1..Len(tok) : IsDigit(tok[i])

\* the claim gives no stack: a token it does not speak of, too few operands,
\* a quotient that is not an integer or a negative exponent
C11_None == [ok |-> FALSE, st |-> <<>>]

RECURSIVE C11_Expect(_, _, _)
\* the stack of integers the claim gives for prog[k..] run on the stack st,
\* top last
C11_Expect(prog, k, st) ==
    IF k > Len(prog) THEN [ok |-> TRUE, st |-> st]
    ELSE IF C11_IsConst(prog[k])
         THEN C11_Expect(prog, k + 1, Append(st, C11_Const(prog[k])))
    ELSE IF prog[k] = <<"d", "u", "p">> /\ Len(st) >= 1
         THEN C11_Expect(prog, k + 1, Append(st, st[Len(st)]))
    ELSE IF Len(st) < 2 THEN C11_None
    ELSE IF prog[k] = <<"s", "w", "a", "p">>
         THEN C11_Expect(prog, k + 1,
                  SubSeq(st, 1, Len(st) - 2) \o <<st[Len(st)], st[Len(st) - 1]>>)
    ELSE IF prog[k] = <<"+">>
         THEN C11_Expect(prog, k + 1,
                  Append(SubSeq(st, 1, Len(st) - 2), st[Len(st) - 1] + st[Len(st)]))
    ELSE IF prog[k] = <<"-">>
         THEN C11_Expect(prog, k + 1,
                  Append(SubSeq(st, 1, Len(st) - 2), st[Len(st) - 1] - st[Len(st)]))
    ELSE IF prog[k] = <<"*">>
         THEN C11_Expect(prog, k + 1,
                  Append(SubSeq(st, 1, Len(st) - 2), st[Len(st) - 1] * st[Len(st)]))
    ELSE IF prog[k] = <<"/">> /\ st[Len(st)] > 0 /\ st[Len(st) - 1] >= 0
            /\ st[Len(st) - 1] % st[Len(st)] = 0
         THEN C11_Expect(prog, k + 1,
                  Append(SubSeq(st, 1, Len(st) - 2),
                         st[Len(st) - 1] \div st[Len(st)]))
    ELSE IF prog[k] = <<"*", "*">> /\ st[Len(st)] >= 0
         THEN C11_Expect(prog, k + 1,
                  Append(SubSeq(st, 1, Len(st) - 2),
                         IPow(st[Len(st) - 1], st[Len(st)])))
    ELSE C11_None

\* the single integer left by the program of this run, as the run left it
C11_Leaves(prog, v) ==
    (rst.phase = "ran" /\ rst.prog = prog) =>
        /\ runs[1].ret = 0
        /\ Len(runs[1].stack) = 1
        /\ runs[1].stack[1].d = 1
        /\ C11_Int(runs[1].stack[1]) = v

(* C11: rpn_run runs the nodes left to right on one stack; a constant       *)
(* pushes its value, + - * / ** replace the top two values a and b (b on     *)
(* top) by a op b, dup pushes a copy of the top, swap exchanges the top      *)
(* two.  So 3 4 + leaves 7, 2 3 ** leaves 8, 5 dup * leaves 25 and           *)
(* 1 2 swap - leaves 1.                                                      *)
C11_StackSemantics ==
    /\ (rst.phase = "ran" /\ C11_Expect(rst.prog, 1, <<>>).ok) =>
          /\ runs[1].ret = 0
          /\ Len(runs[1].stack) = Len(C11_Expect(rst.prog, 1, <<>>).st)
          /\ \A i \in 1..Len(runs[1].stack) :
                /\ runs[1].stack[i].d = 1
                /\ C11_Int(runs[1].stack[i]) = C11_Expect(rst.prog, 1, <<>>).st[i]
    /\ C11_Leaves(<<<<"3">>, <<"4">>, <<"+">>>>, 7)
    /\ C11_Leaves(<<<<"2">>, <<"3">>, <<"*", "*">>>>, 8)
    /\ C11_Leaves(<<<<"5">>, <<"d", "u", "p">>, <<"*">>>>, 25)
    /\ C11_Leaves(<<<<"1">>, <<"2">>, <<"s", "w", "a", "p">>, <<"-">>>>, 1)

\* the run of 1 2 swap -, which left 1
C11_Witness ==
    /\ rst.phase = "ran"
    /\ rst.prog = <<<<"1">>, <<"2">>, <<"s", "w", "a", "p">>, <<"-">>>>
    /\ runs[1].stack = <<FromInt(1)>>
    /\ pubs # <<>>

\* a < b for two finite doubles, by cross multiplication
C12_Less(a, b) == a.s * a.n * b.d < b.s * b.n * a.d

\* the run's program is two constants and the comparison op
C12_Compares(op) ==
    /\ rst.phase = "ran"
    /\ Len(rst.prog) = 3
    /\ IsConstTok(rst.prog[1]) /\ IsConstTok(rst.prog[2])
    /\ rst.prog[3] = op

(* C12: < and > replace the top two values a and b (b on top) by 1 exactly  *)
(* when a is less than (greater than) b and by 0 otherwise, also for         *)
(* operands that are not integers.                                           *)
C12_NumericCompare ==
    /\ C12_Compares(<<"<">>) =>
          runs[1].stack =
              <<FromInt(IF C12_Less(StrToD(rst.prog[1]), StrToD(rst.prog[2]))
                        THEN 1 ELSE 0)>>
    /\ C12_Compares(<<">">>) =>
          runs[1].stack =
              <<FromInt(IF C12_Less(StrToD(rst.prog[2]), StrToD(rst.prog[1]))
                        THEN 1 ELSE 0)>>

\* the program with the constant 0 in the place of every ${a}
C13_ZeroFor(prog) ==
    [i \in 1..Len(prog) |->
        IF prog[i] = <<"$", "{", "a", "}">> THEN <<"0">> ELSE prog[i]]

\* the run of this state evaluated a program naming ${a} with a not cached
C13_Missing ==
    /\ rst.phase = "ran"
    /\ ~Cached(topics, <<"a">>)
    /\ \E i \in 1..Len(rst.prog) : rst.prog[i] = <<"$", "{", "a", "}">>

(* C13: a reference ${T} to a topic the cache does not hold pushes 0 and    *)
(* the evaluation goes on: the run ends as that of the same program with     *)
(* the constant 0 in the place of ${T}, and the program ${T} alone           *)
(* publishes 0.000000.                                                       *)
C13_MissingTopicIsZero ==
    /\ C13_Missing =>
          /\ runs[1].ret =
                rpn_run(<<>>, rpn_parse(JoinToks(C13_ZeroFor(rst.prog))),
                        topics, build)[1]
          /\ runs[1].stack =
                rpn_run(<<>>, rpn_parse(JoinToks(C13_ZeroFor(rst.prog))),
                        topics, build)[2]
    /\ (C13_Missing /\ rst.prog = <<<<"$", "{", "a", "}">>>>) =>
          /\ runs[1].ret = 0
          /\ runs[1].stack = <<Zero>>
          /\ Len(pubs) = 1
          /\ pubs[1].payload = <<"0", ".", "0", "0", "0", "0", "0", "0">>
          /\ items[1].lastvalue = Some(pubs[1].payload)

\* ${a} 3 with a not cached: the run went on after the reference and
\* published
C13_Witness ==
    /\ C13_Missing
    /\ rst.prog = <<<<"$", "{", "a", "}">>, <<"3">>>>
    /\ runs[1].ret = 0
    /\ runs[1].stack = <<Zero, FromInt(3)>>
    /\ Len(pubs) = 1

(* C15: between handler calls no cached topic has its changed flag set;     *)
(* every re-evaluation a data message on T causes sees exactly T's flag      *)
(* set, the first one included; the first run of a spec message sees no      *)
(* flag set.                                                                 *)
C15_ChangedOnlyDuringPass ==
    /\ alive => ChangedTopics(topics) = {}
    /\ WasData => \A k \in 1..Len(runs) : runs[k].flags = {msg.topic}
    /\ WasLogic => \A k \in 1..Len(runs) : runs[k].flags = {}

\* a data message that re-evaluated two items, with the flag cleared after
C15_Witness ==
    /\ WasData
    /\ Len(runs) = 2
    /\ runs[1].flags = {msg.topic}
    /\ Cached(topics, msg.topic)
    /\ topics[FindTopic(topics, msg.topic)].changed = 0
    /\ alive

\* the value of the cache entry named name
C14_Value(name) == StrToD(topics[FindTopic(topics, name)].value)

C16_PubsOnAfter(name) == {k \in 1..Len(pubs') : pubs'[k].topic = name}

\* the step handles a spec message whose payload holds an unknown token
C16_BadSpecStep ==
    /\ nmsg' = nmsg + 1
    /\ IsLogicTopic(msg'.topic)
    /\ msg'.payload \in BadExprs

(* C16: a spec payload with an unknown token leaves the item without any    *)
(* expression; the counts of the cached topics go down by the nodes of the   *)
(* previous expression that name them; an item without expression            *)
(* publishes nothing, neither on that message nor on later data messages;    *)
(* the daemon keeps running.                                                 *)
C16_BadSpecRejected ==
    [][/\ C16_BadSpecStep =>
            /\ \E i \in 1..Len(items') :
                  items'[i].topic = KeyOf(msg') /\ items'[i].logic = <<>>
            /\ Len(freed') = 1
            /\ Len(topics') = Len(topics)
            /\ \A i \in 1..Len(topics) :
                  topics'[i].ref =
                      topics[i].ref - NodeCount(freed'[1], topics[i].topic)
       /\ nmsg' = nmsg + 1 =>
            /\ alive'
            /\ \A i \in 1..Len(items') :
                  items'[i].logic = <<>> => C16_PubsOnAfter(items'[i].topic) = {}
      ]_vars

\* a bad spec replaced an expression whose topics are cached with values
C16_Witness ==
    /\ WasLogic /\ msg.payload \in BadExprs
    /\ Len(freed) = 1
    /\ NamesOnce(freed[1], <<"a">>, <<"b">>)
    /\ Cached(topics, <<"a">>) /\ Cached(topics, <<"b">>)
    /\ ItemOf(KeyOf(msg)).logic = <<>>
    /\ ItemOf(KeyOf(msg)).lastvalue # None
    /\ pubs = <<>>
    /\ alive

\* the key of a registry item: its topic, which mqttimer stores with the
\* suffix and the length of the part before it
C17_Key(it) == IF "topiclen" \in DOMAIN it THEN StrN(it.topic, it.topiclen) ELSE it.topic

\* indexes of the items of list its with key name
C17_Holders(its, name) == {i \in 1..Len(its) : C17_Key(its[i]) = name}

(* C17: a lookup of <name><suffix> returns an item of the list only when    *)
(* that item's key is exactly name (same length, same characters);          *)
(* without such an item it puts one new item with key name in front of the  *)
(* list when creation is allowed and returns not-found, leaving the list    *)
(* alone, otherwise; no list ever holds two items with the same key.        *)
C17_ExactKeyLookup ==
    /\ \A i, j \in 1..Len(items) : C17_Key(items[i]) = C17_Key(items[j]) => i = j
    /\ rst.phase = "looked" =>
         IF C17_Holders(rst.before, rst.name) # {}
         THEN /\ items = rst.before
              /\ rst.ret \in C17_Holders(rst.before, rst.name)
         ELSE IF rst.create = 1
         THEN /\ rst.ret = 1
              /\ Tail(items) = rst.before
              /\ C17_Key(items[1]) = rst.name
         ELSE items = rst.before /\ rst.ret = 0

\* with foo1 and foo10 both registered, a lookup of foo1<suffix> returned
\* the item keyed foo1, and one of foo finds nothing
C17_Witness ==
    /\ rst.phase = "looked"
    /\ C17_Holders(rst.before, <<"f", "o", "o", "1", "0">>) # {}
    /\ C17_Holders(rst.before, <<"f", "o", "o", "1">>) # {}
    /\ C17_Holders(rst.before, <<"f", "o", "o">>) = {}
    /\ \/ rst.name = <<"f", "o", "o", "1">> /\ rst.ret # 0
             /\ C17_Key(items[rst.ret]) = <<"f", "o", "o", "1">>
       \/ rst.name = <<"f", "o", "o">> /\ rst.create = 0 /\ rst.ret = 0

\* the value of the number texts of DelayNumbers, as numerator and denominator
C18_Number(n) ==
    CASE n = <<"0">> -> <<0, 1>>
      [] n = <<"1">> -> <<1, 1>>
      [] n = <<"2">> -> <<2, 1>>
      [] n = <<"1", "0">> -> <<10, 1>>
      [] n = <<"3", "0">> -> <<30, 1>>
      [] n = <<"1", ".", "5">> -> <<3, 2>>

\* seconds per unit letter
C18_Factor(u) ==
    CASE u = <<>> -> 1
      [] u \in {<<"m">>, <<"M">>} -> 60
      [] u \in {<<"h">>, <<"H">>} -> 3600
      [] u \in {<<"d">>, <<"D">>} -> 86400
      [] u \in {<<"w">>, <<"W">>} -> 604800

C18_Units == DelayUnits \ {<<"s">>}

(* C18: the first token of a timer spec gives the delay number times unit,  *)
(* with m = 60, h = 3600, d = 86400, w = 604800 in either case and 1        *)
(* without a unit letter; 10m is 600, 2h is 7200, 1d is 86400, 1w is 604800  *)
(* and 30 is 30.                                                            *)
C18_DelayIsNumberTimesUnit ==
    (rst.phase = "parsed" /\ rst.unit \in C18_Units) =>
        /\ Len(items) = 1
        /\ items[1].delay.s = 1
        /\ items[1].delay.d # 0
        /\ items[1].delay.n * C18_Number(rst.num)[2] =
               C18_Number(rst.num)[1] * C18_Factor(rst.unit) * items[1].delay.d
        /\ (rst.num = <<"1", "0">> /\ rst.unit = <<"m">>) => items[1].delay = FromInt(600)
        /\ (rst.num = <<"2">> /\ rst.unit = <<"h">>) => items[1].delay = FromInt(7200)
        /\ (rst.num = <<"1">> /\ rst.unit = <<"d">>) => items[1].delay = FromInt(86400)
        /\ (rst.num = <<"1">> /\ rst.unit = <<"w">>) => items[1].delay = FromInt(604800)
        /\ (rst.num = <<"3", "0">> /\ rst.unit = <<>>) => items[1].delay = FromInt(30)

\* "2H off" was received: two hours, in upper case, before a reset value
C18_Witness ==
    /\ rst.phase = "parsed"
    /\ rst.num = <<"2">> /\ rst.unit = <<"H">> /\ rst.reset # <<>>
    /\ Len(items) = 1
    /\ items[1].delay = FromInt(7200)
    /\ items[1].resetvalue = <<"o", "f", "f">>

\* the key of the item whose timeout fired
C19_FiredKey == StrN(rst.fired[1].topic, rst.fired[1].topiclen)

(* C19: when the reset timeout of an item expires, the daemon publishes the *)
(* item's reset value once, not before the time on-time + delay, on the     *)
(* data topic <name>, or on <name> followed by the write suffix when one is *)
(* configured, and never on the spec topic <name>/timer.                    *)
C19_ResetOnDataTopic ==
    rst.phase = "fired" =>
        /\ Len(pubs) = 1
        /\ pubs[1].payload = rst.fired[1].resetvalue
        /\ rst.due = NumAdd(rst.fired[1].ontime, rst.fired[1].delay, build)
        /\ ~NumLess(FromInt(rst.now), rst.due)
        /\ pubs[1].topic = IF rst.wsfx = None THEN C19_FiredKey
                           ELSE C19_FiredKey \o rst.wsfx[1]
        /\ pubs[1].topic # C19_FiredKey \o timer_mqtt_suffix

\* what does hold of the expiry: the reset value, once, when it is due
C19_ResetWhenDue ==
    rst.phase = "fired" =>
        /\ Len(pubs) = 1
        /\ pubs[1].payload = rst.fired[1].resetvalue
        /\ rst.due = NumAdd(rst.fired[1].ontime, rst.fired[1].delay, build)
        /\ ~NumLess(FromInt(rst.now), rst.due)
        /\ pubs[1].topic = rst.fired[1].topic \o
               (IF rst.wsfx = None THEN <<>> ELSE rst.wsfx[1])

\* the time of alarm i has come: the step that follows runs on_alrm for it
C20_Due(i) == AlrmReadable /\ items[i].scheduled = rst.tfd_setp

\* the first day after day `today` that the week-day mask has
C20_NextDay(wdays, today) ==
    CHOOSE d \in (today + 1)..(today + 7) :
        /\ Bit(wdays, WDay(d)) = 1
        /\ \A e \in (today + 1)..(d - 1) : Bit(wdays, WDay(e)) = 0

\* what the step published on a topic
C20_PubsOn(topic) == {pubs'[k] : k \in {j \in 1..Len(pubs') : pubs'[j].topic = topic}}

(* C20: when the time of an alarm comes while its skip flag is set and its  *)
(* state is off, nothing is published on the state topic and the state      *)
(* stays off, one empty retained message is published on <name>/skip, the   *)
(* flag is cleared and the alarm is scheduled for the same time on the next *)
(* selected day; an alarm whose time comes with the flag clear and the      *)
(* state off goes on and publishes 1, retained, on its state topic.         *)
C20_SkippedOnce ==
    [][rst'.phase = "fired" =>
         /\ Len(items') = Len(items)
         /\ \A i \in 1..Len(items) :
              (C20_Due(i) /\ items[i].state = ALRM_OFF) =>
                  IF items[i].skip # 0
                  THEN /\ items'[i].state = ALRM_OFF
                       /\ items'[i].skip = 0
                       /\ C20_PubsOn(items[i].topic) = {}
                       /\ C20_PubsOn(items[i].topic \o <<"/", "s", "k", "i", "p">>) =
                              {AlrmPub(items[i].topic \o <<"/", "s", "k", "i", "p">>,
                                       <<>>, TRUE)}
                       /\ items'[i].scheduled =
                              AlarmTime(C20_NextDay(items[i].wdays, rst.now \div 86400),
                                        items[i].hhmm)
                       /\ rst'.tfd_setp = items'[i].scheduled
                  ELSE /\ items'[i].state = ALRM_ON
                       /\ C20_PubsOn(items[i].topic) =
                              {AlrmPub(items[i].topic, <<"1">>, TRUE)}
      ]_vars

\* the alarm of 01:00 was skipped at 01:00 of the first day and waits for
\* 01:00 of the second
C20_Witness ==
    /\ rst.phase = "fired"
    /\ rst.now = 3600
    /\ Len(items) = 1
    /\ items[1].state = ALRM_OFF
    /\ items[1].skip = 0
    /\ items[1].scheduled = 90000
    /\ pubs = <<AlrmPub(AlrmKey \o <<"/", "s", "k", "i", "p">>, <<>>, TRUE)>>

-----------------------------------------------------------------------------
(* mqttalrm with snoozing: the messages of SpecAlrm and those on             *)
(* <name>/snooze, <name>/snoozetime and on the state topic <name> itself,     *)
(* which other clients write too.  The clock stops after MaxTime hours.       *)

SnzMsgs ==
    [topic : {AlrmKey \o <<"/", "a", "l", "a", "r", "m">>},
     payload : {<<"0", "1", ":", "0", "0">>}]
    \cup [topic : {AlrmKey \o <<"/", "s", "k", "i", "p">>},
          payload : {<<"1">>}]
    \cup [topic : {AlrmKey \o <<"/", "e", "n", "a", "b", "l", "e">>},
          payload : {<<"0">>, <<"1">>}]
    \cup [topic : {AlrmKey \o <<"/", "r", "e", "p", "e", "a", "t">>},
          payload : {<<"m", "t", "w", "t", "-", "s", "s">>}]
    \cup [topic : {AlrmKey \o <<"/", "d", "i", "s", "m", "i", "s", "s">>,
                   AlrmKey \o <<"/", "s", "n", "o", "o", "z", "e">>},
          payload : {<<"1">>}]
    \cup [topic : {AlrmKey \o <<"/", "s", "n", "o", "o", "z", "e", "t", "i", "m", "e">>},
          payload : {<<"1", "h">>, <<"2", "h">>}]
    \cup [topic : {AlrmKey}, payload : {alrm_states[v] : v \in 1..3}]

\* the timeouts of libt that are due
AlrmDue == {t \in rst.timeouts : t.wakeup <= rst.now}

\* the index of the item a timeout was added for, 0 when it was freed
AlrmItemOf(its, t) ==
    IF \E i \in 1..Len(its) : its[i].topic = t.dat
    THEN CHOOSE i \in 1..Len(its) : its[i].topic = t.dat
    ELSE 0

\* mosquitto_loop_read delivers message m: one call of my_mqtt_msg
AlrmDeliver(m) ==
    /\ nmsg < MaxMsgs
    /\ \E o \in {alrm_my_mqtt_msg(items, rst.tfd_setp, rst.timeouts, m, rst.now)} :
         /\ items' = o.items
         /\ pubs' = o.pubs
         /\ msg' = m
         /\ rst' = [phase |-> "msg", now |-> rst.now, tfd_setp |-> o.tfd_setp,
                    timeouts |-> o.timeouts]
    /\ nmsg' = nmsg + 1
    /\ UNCHANGED <<topics, runs, freed, redelivered, alive, broker, build>>

SnzMsgIn == \E m \in SnzMsgs : AlrmDeliver(m)

\* libt_flush() at the head of the loop of main(): a due timeout of an item
\* of the list runs on_alrm(it)
AlrmFlush ==
    /\ \E t \in AlrmDue :
         /\ AlrmItemOf(items, t) # 0
         /\ \E o \in {alrm_flush(items, AlrmItemOf(items, t), rst.tfd_setp,
                                 rst.timeouts, t, rst.now)} :
              /\ items' = o.items
              /\ pubs' = o.pubs
              /\ rst' = [phase |-> "flush", now |-> rst.now,
                         tfd_setp |-> o.tfd_setp, timeouts |-> o.timeouts]
    /\ UNCHANGED <<topics, msg, runs, freed, redelivered, alive, broker, build,
                   nmsg>>

\* an hour passes while nothing is due
SnzTick ==
    /\ ~AlrmReadable
    /\ AlrmDue = {}
    /\ rst.now < MaxTime * 3600
    /\ rst' = [rst EXCEPT !.phase = "tick", !.now = rst.now + 3600]
    /\ pubs' = <<>>
    /\ UNCHANGED <<items, topics, msg, runs, freed, redelivered, alive, broker,
                   build, nmsg>>

NextSnooze == SnzMsgIn \/ AlrmFire \/ AlrmFlush \/ SnzTick

SpecSnooze == InitAlrm /\ [][NextSnooze]_vars

-----------------------------------------------------------------------------
(* Claims about mqttalrm with snoozing                                      *)

\* the index of the alarm of the model in its, 0 without it
AlrmIdx(its) ==
    IF \E i \in 1..Len(its) : its[i].topic = AlrmKey
    THEN CHOOSE i \in 1..Len(its) : its[i].topic = AlrmKey
    ELSE 0

\* the alarm is in the list, on or snoozed
AlrmActive == AlrmIdx(items) # 0 /\ items[AlrmIdx(items)].state # ALRM_OFF

\* the step delivers a message on <name><tok>
AlrmMsgOn(tok) == rst'.phase = "msg" /\ nmsg' = nmsg + 1 /\ msg'.topic = AlrmKey \o tok

\* the delivered message changes the time, the days or the enable flag
C21_Reschedules ==
    \/ AlrmMsgOn(<<"/", "a", "l", "a", "r", "m">>) /\ strtohhmm(msg'.payload) >= 0
    \/ AlrmMsgOn(<<"/", "r", "e", "p", "e", "a", "t">>)
    \/ /\ AlrmMsgOn(<<"/", "e", "n", "a", "b", "l", "e">>)
       /\ StrToUL(msg'.payload) # items[AlrmIdx(items)].enabled

\* the alarm is off, 0 was published retained on its topic, no timeout is
\* left for it
C21_Dismissed ==
    /\ AlrmIdx(items') # 0
    /\ items'[AlrmIdx(items')].state = ALRM_OFF
    /\ \E k \in 1..Len(pubs') :
         pubs'[k] = AlrmPub(AlrmKey, alrm_states[ALRM_OFF + 1], TRUE)
    /\ \A t \in rst'.timeouts : t.dat # AlrmKey

\* C21: a message that changes the time, the repeat days or the enable flag
\* of an alarm that is on or snoozed dismisses it: the state becomes off,
\* 0 is published retained on its topic and the snooze timeout is removed.
C21_ChangeDismisses == [][(AlrmActive /\ C21_Reschedules) => C21_Dismissed]_vars

\* a snoozed alarm with its timeout pending, dismissed by a changing message
C21_Witness ==
    /\ rst.phase = "msg"
    /\ msg.topic = AlrmKey \o <<"/", "r", "e", "p", "e", "a", "t">>
    /\ AlrmIdx(items) # 0
    /\ items[AlrmIdx(items)].state = ALRM_OFF
    /\ items[AlrmIdx(items)].snooze_time # 0
    /\ \E k \in 1..Len(pubs) :
         pubs[k] = AlrmPub(AlrmKey, alrm_states[ALRM_OFF + 1], TRUE)

\* 1 is published on the topic of the alarm
AlrmPubsOn ==
    \E k \in 1..Len(pubs) : pubs[k] = AlrmPub(AlrmKey, alrm_states[ALRM_ON + 1], TRUE)

\* C22: an alarm that never received a valid <name>/alarm time is never on
\* and 1 is never published on its topic, whatever other messages arrive.
\* No message of SpecSnooze removes an item, so valid = 0 tells that no
\* valid time was received.
C22_NoTimeNeverOn ==
    (AlrmIdx(items) # 0 /\ items[AlrmIdx(items)].valid = 0)
        => (items[AlrmIdx(items)].state # ALRM_ON /\ ~AlrmPubsOn)

\* C22, the publish alone: without a valid time 1 is never published
C22_NoTimeNeverPubsOn ==
    (AlrmIdx(items) # 0 /\ items[AlrmIdx(items)].valid = 0) => ~AlrmPubsOn

\* C24: an alarm never has both a scheduled alarm time (for the timerfd)
\* and a snooze timeout (on_alrm in libt) set.
C24_ScheduledOrSnoozed ==
    \A i \in 1..Len(items) :
        items[i].scheduled # 0 => \A t \in rst.timeouts : t.dat # items[i].topic

\* the timeouts of libt for the alarm of the model
AlrmTimeouts(tmo) == {t \in tmo : t.dat = AlrmKey}

\* the step delivers <name>/snooze to an alarm that snooze_alrm snoozes
C26_SnoozeStep ==
    /\ AlrmMsgOn(<<"/", "s", "n", "o", "o", "z", "e">>)
    /\ AlrmActive
    /\ items[AlrmIdx(items)].valid # 0
    /\ items[AlrmIdx(items)].wdays # 0

\* the step is libt_flush() running on_alrm for the alarm
C26_FiringStep == rst'.phase = "flush" /\ rst' # rst

\* C26: however often an alarm is snoozed before its timeout fires, there is
\* one timeout for it, due snooze_time after the latest request, and on_alrm
\* fires once, at that time: after the firing no timeout is left.
C26_OneSnoozeTimeout ==
    [][/\ C26_SnoozeStep =>
            AlrmTimeouts(rst'.timeouts) =
                {[dat |-> AlrmKey,
                  wakeup |-> rst.now + items[AlrmIdx(items)].snooze_time]}
       /\ C26_FiringStep =>
            /\ AlrmTimeouts(rst.timeouts) = {t \in AlrmTimeouts(rst.timeouts) :
                                                t.wakeup = rst.now}
            /\ Cardinality(AlrmTimeouts(rst.timeouts)) = 1
            /\ AlrmTimeouts(rst'.timeouts) = {}
            /\ items'[AlrmIdx(items')].state = ALRM_ON]_vars

\* a snoozed alarm was snoozed again an hour later: its timeout is due two
\* hours after that request, not after the first one
C26_Witness ==
    /\ rst.phase = "msg"
    /\ msg.topic = AlrmKey \o <<"/", "s", "n", "o", "o", "z", "e">>
    /\ rst.now = 2 * 3600
    /\ AlrmIdx(items) # 0
    /\ items[AlrmIdx(items)].state = ALRM_SNOOZED
    /\ items[AlrmIdx(items)].snooze_time = 2 * 3600
    /\ items[AlrmIdx(items)].scheduled = 0
    /\ nmsg = 4
    /\ AlrmTimeouts(rst.timeouts) = {[dat |-> AlrmKey, wakeup |-> 4 * 3600]}

-----------------------------------------------------------------------------
(* mqttalrm with alarms that are removed: an empty <name>/alarm, and the     *)
(* broker delivering the daemon's own publishes under <name> back to it, in   *)
(* order.  The state topic <name> itself comes back when the daemon was       *)
(* started with a pattern that matches it (state_sub); the default pattern    *)
(* alarms/+/+ does not.  The clock stops after MaxTime hours.                 *)

DropMsgs ==
    [topic : {AlrmKey \o <<"/", "a", "l", "a", "r", "m">>},
     payload : {<<"0", "1", ":", "0", "0">>, <<>>}]
    \cup [topic : {AlrmKey \o <<"/", "s", "n", "o", "o", "z", "e">>},
          payload : {<<"1">>}]
    \cup [topic : {AlrmKey \o <<"/", "s", "n", "o", "o", "z", "e", "t", "i", "m", "e">>},
          payload : {<<"1", "h">>}]

InitDrop ==
    /\ items = <<>> /\ topics = <<>> /\ msg = NoMsg /\ pubs = <<>>
    /\ runs = <<>> /\ freed = <<>> /\ redelivered = FALSE /\ alive = TRUE
    /\ nmsg = 0 /\ broker = "ok" /\ build = X86
    /\ \E sub \in BOOLEAN :
         rst = [phase |-> "idle", now |-> 0, tfd_setp |-> 0, timeouts |-> {},
                echo |-> <<>>, state_sub |-> sub]

\* the publishes of ps that the broker delivers back to the daemon
EchoOf(ps, sub) ==
    SelectSeq(ps, LAMBDA p : /\ StrN(p.topic, Len(AlrmKey)) = AlrmKey
                             /\ (sub \/ p.topic # AlrmKey))

\* the daemon after a callback that left o, with echo the messages that
\* are still to come back
DropStep(o, ph, echo) ==
    /\ items' = o.items
    /\ pubs' = o.pubs
    /\ rst' = [phase |-> ph, now |-> rst.now, tfd_setp |-> o.tfd_setp,
               timeouts |-> o.timeouts,
               echo |-> echo \o EchoOf(o.pubs, rst.state_sub),
               state_sub |-> rst.state_sub]

\* one call of my_mqtt_msg for message m; strcmp() of a NULL payload ends
\* the process
DropHandle(m, ph, echo) ==
    /\ msg' = m
    /\ IF alrm_strcmp_null(items, m)
       THEN /\ alive' = FALSE
            /\ pubs' = <<>>
            /\ rst' = [rst EXCEPT !.phase = "crash", !.echo = echo]
            /\ UNCHANGED items
       ELSE /\ DropStep(alrm_my_mqtt_msg(items, rst.tfd_setp, rst.timeouts, m, rst.now),
                        ph, echo)
            /\ UNCHANGED alive

\* a message of another client
DropMsgIn ==
    /\ alive
    /\ nmsg < MaxMsgs
    /\ \E m \in DropMsgs : DropHandle(m, "msg", rst.echo)
    /\ nmsg' = nmsg + 1
    /\ UNCHANGED <<topics, runs, freed, redelivered, broker, build>>

\* the oldest publish of the daemon itself comes back
DropEcho ==
    /\ alive
    /\ rst.echo # <<>>
    /\ DropHandle([topic |-> Head(rst.echo).topic, payload |-> Head(rst.echo).payload],
                  "echo", Tail(rst.echo))
    /\ UNCHANGED <<topics, runs, freed, redelivered, broker, build, nmsg>>

\* poll reports the timerfd
DropFire ==
    /\ alive
    /\ AlrmReadable
    /\ DropStep(alrm_timerfd(items, rst.tfd_setp, rst.timeouts, rst.now),
                "fired", rst.echo)
    /\ UNCHANGED <<topics, msg, runs, freed, redelivered, alive, broker, build,
                   nmsg>>

\* libt_flush() runs a due timeout of an item of the list
DropFlush ==
    /\ alive
    /\ \E t \in AlrmDue :
         /\ AlrmItemOf(items, t) # 0
         /\ DropStep(alrm_flush(items, AlrmItemOf(items, t), rst.tfd_setp,
                                rst.timeouts, t, rst.now),
                     "flush", rst.echo)
    /\ UNCHANGED <<topics, msg, runs, freed, redelivered, alive, broker, build,
                   nmsg>>

\* libt_flush() runs a due timeout whose item was freed: on_alrm reads and
\* writes freed memory.  The process ends or goes on; what goes on may have
\* published anything, which is not followed here.
DropDangling ==
    /\ alive
    /\ \E t \in AlrmDue :
         /\ AlrmItemOf(items, t) = 0
         /\ rst' = [rst EXCEPT !.phase = "dangling", !.timeouts = rst.timeouts \ {t}]
    /\ alive' \in BOOLEAN
    /\ pubs' = <<>>
    /\ UNCHANGED <<items, topics, msg, runs, freed, redelivered, broker, build,
                   nmsg>>

\* an hour passes while nothing is due
DropTick ==
    /\ alive
    /\ ~AlrmReadable
    /\ AlrmDue = {}
    /\ rst.echo = <<>>
    /\ rst.now < MaxTime * 3600
    /\ rst' = [rst EXCEPT !.phase = "tick", !.now = rst.now + 3600]
    /\ pubs' = <<>>
    /\ UNCHANGED <<items, topics, msg, runs, freed, redelivered, alive, broker,
                   build, nmsg>>

NextDrop ==
    DropMsgIn \/ DropEcho \/ DropFire \/ DropFlush \/ DropDangling \/ DropTick

SpecDrop == InitDrop /\ [][NextDrop]_vars

-----------------------------------------------------------------------------
(* Claims about alarms that are removed                                      *)

\* C23: after an item was deleted by an empty <name>/alarm, no pending
\* timer callback has that item as its argument: every timeout of libt
\* belongs to an item of the list.
C23_NoTimerOfFreedItem ==
    \A t \in rst.timeouts : AlrmItemOf(items, t) # 0

\* C25: once the clearing publishes of a deletion (the empty messages on
\* <name>/repeat, /skip, /enable, /snoozetime and <name>) have come back to
\* the daemon, the list holds no item of that name.  In SpecDrop the
\* daemon publishes empty messages under <name> only when it deletes.
C25_GoneAfterEcho ==
    (rst.phase \in {"echo", "crash"} /\ rst.echo = <<>> /\ msg.payload = <<>>)
        => AlrmIdx(items) = 0

\* C25, second part: a message with an empty payload never creates an item
C25_EmptyNeverCreates ==
    [][(rst'.phase \in {"msg", "echo"} /\ msg'.payload = <<>>)
          => Len(items') <= Len(items)]_vars

-----------------------------------------------------------------------------
(* mqttlogic with a connection that fails: mosquitto_publish may return an  *)
(* error for any of the publishes of a message.                              *)

InitFlaky == InitLogic /\ broker = "flaky" /\ build = X86

FlakyLogicMsgs ==
    {[topic |-> <<"n">> \o mqtt_suffix, payload |-> e] : e \in {ExprSum, ExprFmt}}

LogicSetFlaky == \E m \in FlakyLogicMsgs : Deliver(m)

NextFlaky == LogicSetFlaky \/ DataBad

SpecFlaky == InitFlaky /\ [][NextFlaky]_vars

\* the publishes of the step that returned an error
C27_Failed == {k \in 1..Len(pubs') : pubs'[k].ret # 0}

\* item i of the list after the step made the publish p
C27_ItemOf(p, i) ==
    i \in 1..Len(items')
    /\ p.topic = (IF items'[i].writetopic = None THEN items'[i].topic
                  ELSE items'[i].writetopic[1])

\* the item as it was before the step, None when the step created it
C27_LastBefore(i) ==
    IF \E j \in 1..Len(items) : items[j].topic = items'[i].topic
    THEN (CHOOSE j \in 1..Len(items) : items[j].topic = items'[i].topic).lastvalue
    ELSE None

\* C27: when the publish of a result reports an error, mqttlogic does not
\* exit, keeps its items and does not update the lastvalue of the item.
C27_PublishErrorSkipped ==
    [][\A k \in C27_Failed :
          /\ alive'
          /\ Len(items') >= Len(items)
          /\ \A i \in 1..Len(items') :
                C27_ItemOf(pubs'[k], i) =>
                    items'[i].lastvalue = C27_LastBefore(i)]_vars

\* C27, the exit alone: the process never ends on a publish
C27_NeverExits == alive

\* C27, the lastvalue alone, for errors that are not negative
C27_ErrorKeepsLastvalue ==
    [][\A k \in C27_Failed :
          pubs'[k].ret > 0 =>
              \A i \in 1..Len(items') :
                  C27_ItemOf(pubs'[k], i) =>
                      items'[i].lastvalue = C27_LastBefore(i)]_vars

-----------------------------------------------------------------------------
(* mqttlogic with two items that name each other, a = ${n} 1 + and          *)
(* n = ${a} 1 +.  mqttlogic subscribes to "#": the broker delivers every     *)
(* publish of the daemon back to it, in order.                               *)

ExprIncN == <<"$", "{", "n", "}", " ", "1", " ", "+">>

ExprIncA == <<"$", "{", "a", "}", " ", "1", " ", "+">>

LoopLogicMsgs ==
    {[topic |-> <<"a">> \o mqtt_suffix, payload |-> ExprIncN],
     [topic |-> <<"n">> \o mqtt_suffix, payload |-> ExprIncA]}

InitLoop ==
    /\ items = <<>> /\ topics = <<>> /\ msg = NoMsg /\ pubs = <<>>
    /\ runs = <<>> /\ freed = <<>> /\ redelivered = FALSE /\ alive = TRUE
    /\ nmsg = 0 /\ broker = "ok" /\ build = X86
    /\ rst = [phase |-> "idle", echo |-> <<>>]

RECURSIVE EchoMsgs(_)
\* the publishes ps as the messages that come back
EchoMsgs(ps) ==
    IF ps = <<>> THEN <<>>
    ELSE <<[topic |-> Head(ps).topic, payload |-> Head(ps).payload]>>
             \o EchoMsgs(Tail(ps))

\* one call of my_mqtt_msg for message m, with echo the messages that are
\* still to come back
LoopHandle(m, ph, echo) ==
    /\ alive
    /\ nmsg < MaxMsgs
    /\ nmsg' = nmsg + 1
    /\ \E o \in {my_mqtt_msg(items, topics, m, build,
                             [i \in 1..Cardinality(ItemKeys) |-> 0])} :
         /\ items' = o.items
         /\ topics' = o.topics
         /\ pubs' = o.pubs
         /\ runs' = o.runs
         /\ freed' = o.freed
         /\ alive' = ~o.exit
         /\ rst' = [phase |-> ph, echo |-> echo \o EchoMsgs(o.pubs)]
    /\ msg' = m
    /\ redelivered' = (nmsg > 0 /\ m = msg)
    /\ UNCHANGED <<broker, build>>

\* a message on <name>/logic of another client
LoopSet == \E m \in LoopLogicMsgs : LoopHandle(m, "msg", rst.echo)

\* the oldest publish of the daemon itself comes back
LoopEcho ==
    /\ rst.echo # <<>>
    /\ LoopHandle(Head(rst.echo), "echo", Tail(rst.echo))

NextLoop == LoopSet \/ LoopEcho

SpecLoop == InitLoop /\ [][NextLoop]_vars

-----------------------------------------------------------------------------
(* Claims about the loop of two items                                        *)

\* what "%f" prints for the whole number k
C28_Text(k) == NatDigits(k) \o <<".", "0", "0", "0", "0", "0", "0">>

\* the other item of the pair
C28_Other(name) == IF name = <<"a">> THEN <<"n">> ELSE <<"a">>

\* both items are in the list
C28_BothSet ==
    \A name \in {<<"a">>, <<"n">>} : \E i \in 1..Len(items) : items[i].topic = name

\* C28: nothing but the skip of the item's own topic stops a loop.  With
\* a = ${n} 1 + and n = ${a} 1 + every publish of one item that comes back
\* makes the other item publish the value plus one, which comes back in
\* turn: the messages do not end.
C28_LoopGoesOn ==
    [][(C28_BothSet /\ rst'.phase = "echo" /\ nmsg' = nmsg + 1) =>
          \E k \in 0..(2 * MaxMsgs + 2) :
              /\ msg'.payload = C28_Text(k)
              /\ pubs' = <<[topic |-> C28_Other(msg'.topic),
                            payload |-> C28_Text(k + 1),
                            retain |-> TRUE, ret |-> 0]>>
              /\ rst'.echo # <<>>]_vars

\* the loop has gone round: 3 came back and 4 is published
C28_Witness ==
    /\ rst.phase = "echo"
    /\ C28_BothSet
    /\ msg.payload = C28_Text(3)
    /\ Len(pubs) = 1
    /\ pubs[1].payload = C28_Text(4)
    /\ rst.echo # <<>>

-----------------------------------------------------------------------------
(* Claims about mqttimer: the on-time                                        *)

\* the index of the item of data topic a, 0 without it
C30_Item(its) ==
    IF \E i \in 1..Len(its) : its[i].topiclen = 1 /\ StrN(its[i].topic, 1) = <<"a">>
    THEN CHOOSE i \in 1..Len(its) :
             its[i].topiclen = 1 /\ StrN(its[i].topic, 1) = <<"a">>
    ELSE 0

\* the step delivers a value that is not the reset value to an item that
\* has an on-time
C30_FurtherValue ==
    /\ rst'.phase = "msg" /\ nmsg' = nmsg + 1
    /\ msg'.topic = <<"a">>
    /\ C30_Item(items) # 0
    /\ msg'.payload # items[C30_Item(items)].resetvalue
    /\ ~IsNaN(items[C30_Item(items)].ontime)

\* C30: while an item has an on-time, a further value that is not the
\* reset value changes neither the on-time nor the pending timeout, which
\* stays due at the on-time plus the delay.
C30_OnTimeKept ==
    [][C30_FurtherValue =>
          /\ items' = items
          /\ rst'.timeouts = rst.timeouts
          /\ \A t \in rst'.timeouts :
                t.dat = items[C30_Item(items)].topic =>
                    t.wakeup = NumAdd(items[C30_Item(items)].ontime,
                                      items[C30_Item(items)].delay, build)]_vars

\* a second value arrived one second after the first, with the reset still
\* due two seconds after the first
C30_Witness ==
    /\ rst.phase = "msg"
    /\ msg = [topic |-> <<"a">>, payload |-> <<"1">>]
    /\ rst.now = 1
    /\ C30_Item(items) # 0
    /\ items[C30_Item(items)].ontime = FromInt(0)
    /\ rst.timeouts = {[dat |-> items[C30_Item(items)].topic, wakeup |-> FromInt(2)]}

-----------------------------------------------------------------------------
(* mqttimport: the topics listed on stdin, the self-sync message and the    *)
(* messages received.  A listed line is <<topic, value>>, the value None     *)
(* for a line without one.                                                   *)

selfsynctopic == <<"t", "m", "p", "/", "s", "e", "l", "f", "s", "y", "n", "c">>

\* the text send_self_sync() printed into myuuid
myuuid == <<"7", "-", "1", "-", "3">>

\* msg is the message send_self_sync() published
is_self_sync(m) == m.topic = selfsynctopic /\ myuuid = m.payload

\* get_item(topic) for a topic that is not listed yet, with the value of
\* the line: the item is put in front
import_get_item(its, line) ==
    <<[imported |-> 0, topic |-> line[1], value |-> line[2]]>> \o its

\* the mosquitto_publish call of send_item
send_publish(it) ==
    [topic   |-> it.topic,
     payload |-> IF it.value = None THEN <<>> ELSE it.value[1],
     retain  |-> TRUE,
     ret     |-> 0]

\* send_item(it): the item afterwards
send_item(it) == [it EXCEPT !.imported = 1]

\* the state of mqttimport: the list and the publishes made
ImportOut(its, ps) == [items |-> its, pubs |-> ps]

RECURSIVE import_lines(_, _, _)
\* the loop of main() over the lines of stdin, send_item with --force
import_lines(d, lines, force) ==
    IF lines = <<>> THEN d
    ELSE import_lines(
             IF force
             THEN ImportOut(<<send_item(Head(import_get_item(d.items, Head(lines))))>>
                                \o d.items,
                            Append(d.pubs,
                                   send_publish(Head(import_get_item(d.items,
                                                                     Head(lines))))))
             ELSE ImportOut(import_get_item(d.items, Head(lines)), d.pubs),
             Tail(lines), force)

\* the first loop of my_mqtt_msg: send_item for every item of the list
import_send_all(its) ==
    ImportOut([i \in 1..Len(its) |-> send_item(its[i])],
              [i \in 1..Len(its) |-> send_publish(its[i])])

\* the index of the first item with the topic, 0 without one
import_find(its, topic) ==
    IF \E i \in 1..Len(its) : its[i].topic = topic
    THEN CHOOSE i \in 1..Len(its) :
             its[i].topic = topic /\ \A j \in 1..(i - 1) : its[j].topic # topic
    ELSE 0

\* a changed import_drop, for testing C29: the item stays in the list
import_drop_none(d, topic) == d

\* the second loop of my_mqtt_msg: drop_item for the item of the topic
import_drop(d, topic) ==
    IF import_find(d.items, topic) = 0 THEN d
    ELSE ImportOut(alrm_drop_item(d.items, import_find(d.items, topic)), d.pubs)

\* my_mqtt_msg of mqttimport
import_my_mqtt_msg(its, m) ==
    import_drop(IF is_self_sync(m) THEN import_send_all(its)
                ELSE ImportOut(its, <<>>),
                m.topic)

\* the lists of lines of the model
ImportLines ==
    { << <<(<<"a">>), Some(<<"1">>)>> >>,
      << <<(<<"a">>), Some(<<"1">>)>>, <<(<<"b">>), None>> >>,
      << <<(<<"b">>), Some(<<"2">>)>>, <<(<<"a">>), Some(<<"1">>)>> >> }

\* the messages of other clients
ImportMsgs ==
    [topic : {<<"a">>, <<"b">>}, payload : {<<"9">>}]
    \cup [topic : {selfsynctopic}, payload : {<<"8", "-", "1", "-", "3">>}]

\* main() up to the loop: the list, the publishes of --force, and queue,
\* the messages the broker has for the client: the publishes come back
\* since their topics are subscribed, then the self-sync message
ImportStart(d, force) ==
    /\ items = d.items
    /\ pubs = d.pubs
    /\ rst = [phase |-> "idle", force |-> force,
              queue |-> EchoMsgs(d.pubs)
                            \o <<[topic |-> selfsynctopic, payload |-> myuuid]>>,
              received |-> {},
              count |-> [t \in {<<"a">>, <<"b">>} |->
                            Cardinality({k \in 1..Len(d.pubs) : d.pubs[k].topic = t})]]

InitImport ==
    /\ topics = <<>> /\ msg = NoMsg /\ runs = <<>> /\ freed = <<>>
    /\ redelivered = FALSE /\ alive = TRUE /\ nmsg = 0 /\ broker = "ok"
    /\ build = X86
    /\ \E lines \in ImportLines, force \in BOOLEAN :
         ImportStart(import_lines(ImportOut(<<>>, <<>>), lines, force), force)

\* mosquitto_loop delivers message m while the list is not empty; queue is
\* what the broker still has
ImportHandle(m, ph, queue) ==
    /\ items # <<>>
    /\ \E o \in {import_my_mqtt_msg(items, m)} :
         /\ items' = o.items
         /\ pubs' = o.pubs
         /\ rst' = [phase |-> ph, force |-> rst.force,
                    queue |-> queue \o EchoMsgs(o.pubs),
                    received |-> rst.received \cup {m.topic},
                    count |-> [t \in DOMAIN rst.count |->
                                  rst.count[t] + Cardinality(
                                      {k \in 1..Len(o.pubs) : o.pubs[k].topic = t})]]
    /\ msg' = m
    /\ UNCHANGED <<topics, runs, freed, redelivered, alive, broker, build>>

\* the next message the broker has: the self-sync message or a publish of
\* mqttimport itself
ImportQueued ==
    /\ rst.queue # <<>>
    /\ ImportHandle(Head(rst.queue),
                    IF is_self_sync(Head(rst.queue)) THEN "sync" ELSE "echo",
                    Tail(rst.queue))
    /\ UNCHANGED nmsg

\* a message of another client
ImportForeign ==
    /\ nmsg < MaxMsgs
    /\ \E m \in ImportMsgs : ImportHandle(m, "msg", rst.queue)
    /\ nmsg' = nmsg + 1

NextImport == ImportQueued \/ ImportForeign

SpecImport == InitImport /\ [][NextImport]_vars

-----------------------------------------------------------------------------
(* Claims about mqttimport                                                   *)

\* C29: without --force mqttimport publishes the value of a listed topic
\* only while it handles its own self-sync message and only when no message
\* was received on the topic before; a listed topic with an earlier message
\* is dropped and never published; no listed topic is published twice.
\* rst.received holds the topics of the messages handled so far, rst.count
\* the number of publishes per listed topic.
C29_ImportOnceAtSync ==
    [][~rst.force =>
          /\ pubs' # <<>> => (rst'.phase = "sync" /\ is_self_sync(msg'))
          /\ \A k \in 1..Len(pubs') : pubs'[k].topic \notin rst.received
          /\ \A t \in DOMAIN rst'.count :
                /\ rst'.count[t] <= 1
                /\ (t \in rst'.received => import_find(items', t) = 0)]_vars

\* the self-sync message was handled after a message on b: a is published,
\* b is not
C29_Witness ==
    /\ ~rst.force
    /\ rst.phase = "sync"
    /\ rst.count[<<"a">>] = 1
    /\ rst.count[<<"b">>] = 0
    /\ <<"b">> \in rst.received
    /\ Len(pubs) = 1
    /\ pubs[1].topic = <<"a">>


-----------------------------------------------------------------------------
(* Claims about mqttimer: the reset value, the spec and the timeout          *)

\* the timeouts pending for item i of its
TimerOf(tmo, its, i) == {t \in tmo : t.dat = its[i].topic}

\* the step delivers a message on data topic a to the item of that name
C31_DataStep ==
    /\ rst'.phase = "msg" /\ nmsg' = nmsg + 1
    /\ msg'.topic = <<"a">>
    /\ C30_Item(items) # 0

\* the step delivers the reset value of the item
C31_ResetStep ==
    C31_DataStep /\ msg'.payload = items[C30_Item(items)].resetvalue

\* the step delivers another value while no on-time is recorded
C31_FreshStep ==
    /\ C31_DataStep /\ msg'.payload # items[C30_Item(items)].resetvalue
    /\ IsNaN(items[C30_Item(items)].ontime)

\* the item of topic a has no on-time and no timeout
C31_Cleared ==
    /\ C30_Item(items) # 0
    /\ IsNaN(items[C30_Item(items)].ontime)
    /\ TimerOf(rst.timeouts, items, C30_Item(items)) = {}

\* C31: a data message that carries the reset value of the item removes
\* the pending timeout of the item, sets its on-time to NaN and publishes
\* nothing; the item then stays without on-time and without timeout until a
\* value that is not the reset value arrives, and that value sets the
\* on-time to the time of its arrival and one timeout at that time plus the
\* delay.
C31_ResetValueClears ==
    [][/\ C31_ResetStep =>
            /\ pubs' = <<>>
            /\ Len(items') = Len(items)
            /\ C31_Cleared'
       /\ (C31_Cleared /\ ~C31_FreshStep) =>
            (C31_Cleared' \/ C30_Item(items') = 0)
       /\ (C31_Cleared /\ C31_FreshStep) =>
            /\ pubs' = <<>>
            /\ items'[C30_Item(items)].ontime = FromInt(rst.now)
            /\ TimerOf(rst'.timeouts, items, C30_Item(items)) =
                 {[dat |-> items[C30_Item(items)].topic,
                   wakeup |-> NumAdd(FromInt(rst.now),
                                     items[C30_Item(items)].delay, build)]}]_vars

\* a value at time 0 with a delay of two seconds, the reset value before
\* the timeout was due, and a second value at time 3: the timeout is due
\* at time 5
C31_Witness ==
    /\ rst.phase = "msg"
    /\ rst.hist = <<"value", "reset", "value">>
    /\ rst.now = 3
    /\ pubs = <<>>
    /\ C30_Item(items) # 0
    /\ items[C30_Item(items)].delay = FromInt(2)
    /\ items[C30_Item(items)].ontime = FromInt(3)
    /\ rst.timeouts = {[dat |-> items[C30_Item(items)].topic, wakeup |-> FromInt(5)]}

\* the step delivers a timer spec with a payload for topic a
C32_SpecStep ==
    /\ rst'.phase = "msg" /\ nmsg' = nmsg + 1
    /\ msg'.topic = <<"a">> \o timer_mqtt_suffix
    /\ msg'.payload # <<>>

\* the last thing that happened on the data topic of the item
HistLast(h) == IF h = <<>> THEN "none" ELSE h[Len(h)]

\* a value that is not the reset value is the last that arrived for the
\* item: its on-time is recorded
C32_Recorded == C30_Item(items) # 0 /\ HistLast(rst.hist) = "value"

(* C32: a timer spec with a payload for an item whose on-time is recorded  *)
(* leaves exactly one timeout for the item, due at the on-time plus the    *)
(* new delay; handled while no on-time is recorded (the item is new, or    *)
(* the reset value arrived or was published last), it leaves no timeout    *)
(* for the item.                                                            *)
C32_SpecReplacesTimer ==
    [][(C32_SpecStep /\ ~IsNaN(items'[C30_Item(items')].delay)) =>
          IF C32_Recorded
          THEN TimerOf(rst'.timeouts, items', C30_Item(items')) =
                 {[dat |-> items[C30_Item(items)].topic,
                   wakeup |-> NumAdd(items[C30_Item(items)].ontime,
                                     items'[C30_Item(items')].delay, build)]}
          ELSE TimerOf(rst'.timeouts, items', C30_Item(items')) = {}]_vars

\* what does hold of the spec: the timeout is set by the fields delay and
\* ontime, whatever wrote them
C32_SpecByFields ==
    [][C32_SpecStep =>
          TimerOf(rst'.timeouts, items', C30_Item(items')) =
              IF /\ ~IsNaN(items'[C30_Item(items')].delay)
                 /\ ~IsNaN(items'[C30_Item(items')].ontime)
              THEN {[dat |-> items'[C30_Item(items')].topic,
                     wakeup |-> NumAdd(items'[C30_Item(items')].ontime,
                                       items'[C30_Item(items')].delay, build)]}
              ELSE {}]_vars

\* a spec with a new delay arrived after the value: the one timeout moved
\* from on-time + 2 to on-time + 1
C32_Moved ==
    /\ rst.phase = "msg"
    /\ msg = [topic |-> <<"a">> \o timer_mqtt_suffix,
              payload |-> <<"1", " ", "o", "f", "f">>]
    /\ rst.hist = <<"value">>
    /\ rst.now = 1
    /\ C30_Item(items) # 0
    /\ items[C30_Item(items)].ontime = FromInt(0)
    /\ rst.timeouts = {[dat |-> items[C30_Item(items)].topic, wakeup |-> FromInt(1)]}

(* C35: reset_item runs for an item only when a value that is not the      *)
(* reset value was the last to arrive for it: once the timeout has fired,  *)
(* no second reset value is published before another such value arrived,   *)
(* whatever spec messages arrive in between.                                *)
C35_OneResetPerValue ==
    [][rst'.phase = "fired" => HistLast(rst.hist) = "value"]_vars

\* what does hold: a second reset without a value in between follows a
\* reset, never the arrival of the reset value; reset_item left ontime = 0
\* in the item and a spec set the timeout at 0 + delay
C35_SecondAfterSpec ==
    [][(rst'.phase = "fired" /\ HistLast(rst.hist) # "value") =>
          /\ HistLast(rst.hist) = "fired"
          /\ rst'.fired[1].ontime = Zero
          /\ rst'.due = rst'.fired[1].delay]_vars

\* the timeout fired twice with no value in between
C35_FiredTwice ==
    /\ rst.phase = "fired"
    /\ Len(rst.hist) >= 2
    /\ rst.hist[Len(rst.hist)] = "fired"
    /\ rst.hist[Len(rst.hist) - 1] = "fired"

\* the step delivers a timer spec without payload for topic a
C33_EmptySpec ==
    /\ rst'.phase = "msg" /\ nmsg' = nmsg + 1
    /\ msg' = [topic |-> <<"a">> \o timer_mqtt_suffix, payload |-> <<>>]

\* every pending timeout belongs to an item of the list
C33_TimeoutsOfItems ==
    \A t \in rst.timeouts : \E i \in 1..Len(items) : items[i].topic = t.dat

(* C33: a timer spec without payload leaves no item of that name and no    *)
(* timeout of the removed item; for a name without item it changes neither *)
(* the items nor the timeouts. Every pending timeout belongs to an item     *)
(* of the list, and reset_item publishes only for an item of the list.     *)
C33_RemovedItemNeverReset ==
    [][/\ C33_EmptySpec =>
            /\ C30_Item(items') = 0
            /\ pubs' = <<>>
            /\ C30_Item(items) # 0 =>
                 /\ Len(items') = Len(items) - 1
                 /\ TimerOf(rst'.timeouts, items, C30_Item(items)) = {}
            /\ C30_Item(items) = 0 =>
                 (items' = items /\ rst'.timeouts = rst.timeouts)
       /\ C33_TimeoutsOfItems'
       /\ pubs' # <<>> =>
            \E i \in 1..Len(items) :
                /\ items[i].topic = rst'.fired[1].topic
                /\ items'[i].topic = items[i].topic]_vars

\* the item was removed at time 0 while the timeout of its value was pending
C33_Witness ==
    /\ rst.phase = "msg"
    /\ msg = [topic |-> <<"a">> \o timer_mqtt_suffix, payload |-> <<>>]
    /\ rst.hist = <<"value", "removed">>
    /\ rst.now = 0
    /\ items = <<>>
    /\ rst.timeouts = {}

(* C34: a timeout is pending for an item only while the delay and the      *)
(* on-time of the item are both not NaN.                                    *)
C34_TimerNeedsDelayAndOnTime ==
    \A t \in rst.timeouts :
        \E i \in 1..Len(items) :
            /\ items[i].topic = t.dat
            /\ ~IsNaN(items[i].delay)
            /\ ~IsNaN(items[i].ontime)

\* what does hold: the timeout of an item without delay is never due, and
\* the spec branch alone sets no timeout without delay
C34_NoDelayNeverFires ==
    [][/\ rst'.phase = "fired" => ~IsNaN(rst'.fired[1].delay)
       /\ C32_SpecStep =>
            \A t \in rst'.timeouts :
                ~IsNaN(items'[TimerItem(items', t.dat)].delay)]_vars

\* a timeout without time is pending for an item without delay
C34_Pending ==
    /\ C30_Item(items) # 0
    /\ IsNaN(items[C30_Item(items)].delay)
    /\ rst.timeouts = {[dat |-> items[C30_Item(items)].topic, wakeup |-> NAN]}

-----------------------------------------------------------------------------
(* mqttalrm with two alarms, a/x and a/y, the global requests a//dismiss      *)
(* and a//snooze and the request a/y/snooze.  Alarm a/x can be removed, a/y   *)
(* can be disabled and set on by another client.  The clock stops after       *)
(* MaxTime hours.                                                             *)

AlrmKeyY == <<"a", "/", "y">>

DismissMsgs ==
    [topic : {AlrmKey \o <<"/", "a", "l", "a", "r", "m">>},
     payload : {<<"0", "1", ":", "0", "0">>, <<>>}]
    \cup [topic : {AlrmKeyY \o <<"/", "a", "l", "a", "r", "m">>},
          payload : {<<"0", "1", ":", "0", "0">>}]
    \cup [topic : {AlrmKey \o <<"/", "s", "n", "o", "o", "z", "e", "t", "i", "m", "e">>},
          payload : {<<"1", "h">>}]
    \cup [topic : {<<"a", "/", "/", "s", "n", "o", "o", "z", "e">>,
                   <<"a", "/", "/", "d", "i", "s", "m", "i", "s", "s">>,
                   AlrmKeyY \o <<"/", "s", "n", "o", "o", "z", "e">>},
          payload : {<<"1">>}]
    \cup [topic : {AlrmKeyY \o <<"/", "e", "n", "a", "b", "l", "e">>},
          payload : {<<"0">>}]
    \cup [topic : {AlrmKeyY}, payload : {alrm_states[ALRM_ON + 1]}]

\* mosquitto_loop_read delivers a message
DismissMsgIn == alive /\ \E m \in DismissMsgs : AlrmDeliver(m)

\* poll reports the timerfd
DismissFire == alive /\ AlrmFire

\* libt_flush() runs a due timeout of an item of the list
DismissFlush == alive /\ AlrmFlush

\* an hour passes while nothing is due
DismissTick == alive /\ SnzTick

NextDismiss ==
    DismissMsgIn \/ DismissFire \/ DismissFlush \/ DropDangling \/ DismissTick

SpecDismiss == InitAlrm /\ [][NextDismiss]_vars

-----------------------------------------------------------------------------
(* Claims about the global dismiss and the snooze requests                   *)

\* the step delivers a//dismiss
C36_DismissStep ==
    /\ rst'.phase = "msg" /\ nmsg' = nmsg + 1
    /\ msg'.topic = <<"a", "/", "/", "d", "i", "s", "m", "i", "s", "s">>

\* the publishes of the step that write state v on topic t
AlrmStatePubs(t, v) ==
    {k \in 1..Len(pubs') : pubs'[k] = AlrmPub(t, alrm_states[v + 1], TRUE)}

\* after the step every item is off, 0 was published once for each item
\* that was on or snoozed and for no other, and every item that is valid,
\* enabled and has days is scheduled: at its next time after now when it
\* was dismissed, as it was when it was off
C36_ItemsDismissed ==
    /\ Len(items') = Len(items)
    /\ \A i \in 1..Len(items) :
         /\ items'[i].state = ALRM_OFF
         /\ items'[i].topic = items[i].topic
         /\ Cardinality(AlrmStatePubs(items[i].topic, ALRM_OFF)) =
               IF items[i].state # ALRM_OFF THEN 1 ELSE 0
         /\ AlrmStatePubs(items[i].topic, ALRM_ON) = {}
         /\ AlrmStatePubs(items[i].topic, ALRM_SNOOZED) = {}
         /\ (items'[i].valid # 0 /\ items'[i].enabled # 0 /\ items'[i].wdays # 0) =>
               /\ items'[i].scheduled # 0
               /\ items'[i].scheduled =
                     IF items[i].state # ALRM_OFF
                     THEN next_alarm(items'[i], rst.now)
                     ELSE items[i].scheduled
               /\ items'[i].scheduled >= rst.now

(* C36: a message on a//dismiss leaves every item off, publishes 0 for     *)
(* each item that was on or snoozed and for no other, leaves no timeout    *)
(* of on_alrm pending, and leaves every item that is valid, enabled and    *)
(* has days scheduled for its next time.                                    *)
C36_DismissAll ==
    [][C36_DismissStep => (C36_ItemsDismissed /\ rst'.timeouts = {})]_vars

\* what does hold: the same for the items of the list; a timeout that is
\* left is that of an item that was removed before
C36_DismissAllOfList ==
    [][C36_DismissStep =>
          /\ C36_ItemsDismissed
          /\ \A t \in rst'.timeouts :
                AlrmItemOf(items', t) = 0 /\ t \in rst.timeouts]_vars

\* alarm a/x was snoozed and a/y was off when a//dismiss arrived
C36_Witness ==
    /\ rst.phase = "msg"
    /\ msg.topic = <<"a", "/", "/", "d", "i", "s", "m", "i", "s", "s">>
    /\ Len(items) = 2
    /\ \E k \in 1..Len(pubs) :
         pubs[k] = AlrmPub(AlrmKey, alrm_states[ALRM_OFF + 1], TRUE)
    /\ \A k \in 1..Len(pubs) : pubs[k].topic # AlrmKeyY
    /\ \A i \in 1..2 : items[i].state = ALRM_OFF /\ items[i].valid = 1
    /\ rst.timeouts = {}

\* the step delivers a snooze request: a//snooze or a/y/snooze
C37_SnoozeStep ==
    /\ rst'.phase = "msg" /\ nmsg' = nmsg + 1
    /\ msg'.topic \in {<<"a", "/", "/", "s", "n", "o", "o", "z", "e">>,
                       AlrmKeyY \o <<"/", "s", "n", "o", "o", "z", "e">>}

\* the request of the step is for item i of the list
C37_For(i) ==
    \/ msg'.topic = <<"a", "/", "/", "s", "n", "o", "o", "z", "e">>
    \/ items[i].topic = AlrmKeyY

\* the timeouts of on_alrm for the item of topic t
AlrmTimeoutsOf(tmo, t) == {u \in tmo : u.dat = t}

\* the publishes of the step on topic t
AlrmPubsOf(t) == {k \in 1..Len(pubs') : pubs'[k].topic = t}

\* item i is on, valid and has days, and is snoozed by the step: it is
\* snoozed afterwards, snoozed was published once on its topic, one
\* timeout is due snooze_time later
C37_Snoozed(i) ==
    /\ items'[i] = [items[i] EXCEPT !.state = ALRM_SNOOZED]
    /\ Cardinality(AlrmStatePubs(items[i].topic, ALRM_SNOOZED)) = 1
    /\ AlrmStatePubs(items[i].topic, ALRM_ON) = {}
    /\ AlrmStatePubs(items[i].topic, ALRM_OFF) = {}
    /\ AlrmTimeoutsOf(rst'.timeouts, items[i].topic) =
          {[dat |-> items[i].topic, wakeup |-> rst.now + items[i].snooze_time]}

\* item i is left as it is: nothing published on its topic, its timeouts
\* as they were
C37_Untouched(i) ==
    /\ items'[i] = items[i]
    /\ AlrmPubsOf(items[i].topic) = {}
    /\ AlrmTimeoutsOf(rst'.timeouts, items[i].topic) =
          AlrmTimeoutsOf(rst.timeouts, items[i].topic)

\* libt_flush() runs the timeout of a snoozed item in the step
C37_WakeStep(i) ==
    /\ rst'.phase = "flush" /\ rst' # rst
    /\ items[i].state = ALRM_SNOOZED
    /\ AlrmTimeoutsOf(rst.timeouts, items[i].topic) #
          AlrmTimeoutsOf(rst'.timeouts, items[i].topic)

(* C37: a snooze request, for one alarm or for all, changes only alarms    *)
(* that are not off.  An alarm that is on, valid and has days becomes      *)
(* snoozed, snoozed is published on its topic and a timeout is set         *)
(* snooze_time later; when libt_flush runs that timeout, at its time,      *)
(* on_alrm sets the alarm on and publishes 1.  An alarm that is off, or    *)
(* that the request is not for, is left unchanged and nothing is           *)
(* published for it.                                                        *)
C37_SnoozeOnlyActive ==
    [][/\ C37_SnoozeStep =>
            /\ Len(items') = Len(items)
            /\ \A i \in 1..Len(items) :
                 /\ (items[i].state = ALRM_OFF \/ ~C37_For(i)) => C37_Untouched(i)
                 /\ (/\ C37_For(i) /\ items[i].state = ALRM_ON
                     /\ items[i].valid # 0 /\ items[i].wdays # 0) => C37_Snoozed(i)
       /\ \A i \in 1..Len(items) :
            C37_WakeStep(i) =>
                /\ \A u \in AlrmTimeoutsOf(rst.timeouts, items[i].topic) :
                      u.wakeup = rst.now
                /\ AlrmTimeoutsOf(rst'.timeouts, items[i].topic) = {}
                /\ items'[i].state = ALRM_ON
                /\ Cardinality(AlrmStatePubs(items[i].topic, ALRM_ON)) = 1]_vars

\* a//snooze snoozed a/x for an hour while a/y was off; an hour later
\* a/x is on again and 1 was published for it
C37_Witness ==
    /\ rst.phase = "flush"
    /\ rst.now = 2 * 3600
    /\ Len(items) = 2
    /\ \A k \in 1..Len(pubs) : pubs[k].topic # AlrmKeyY
    /\ \E k \in 1..Len(pubs) :
         pubs[k] = AlrmPub(AlrmKey, alrm_states[ALRM_ON + 1], TRUE)
    /\ \E i, j \in 1..2 :
         /\ items[i].topic = AlrmKey /\ items[i].state = ALRM_ON
         /\ items[i].snooze_time = 3600
         /\ items[j].topic = AlrmKeyY /\ items[j].state = ALRM_OFF
         /\ items[j].valid = 1 /\ items[j].enabled = 0
    /\ msg.topic = <<"a", "/", "/", "s", "n", "o", "o", "z", "e">>

-----------------------------------------------------------------------------
(* mqttalrm with a clock that is set: alarm a/x with messages that enable    *)
(* and disable it and select or clear its days, and the system time set to   *)
(* another hour, which the timerfd reports (TFD_TIMER_CANCEL_ON_SET).  The   *)
(* timeouts of libt are kept on the same clock.                               *)

SchedMsgs ==
    [topic : {AlrmKey \o <<"/", "a", "l", "a", "r", "m">>},
     payload : {<<"0", "1", ":", "0", "0">>}]
    \cup [topic : {AlrmKey \o <<"/", "e", "n", "a", "b", "l", "e">>},
          payload : {<<"0">>, <<"1">>}]
    \cup [topic : {AlrmKey \o <<"/", "r", "e", "p", "e", "a", "t">>},
          payload : {<<"m", "t", "w", "t", "-", "s", "s">>,
                     <<"-", "-", "-", "-", "-", "-", "-">>}]
    \cup [topic : {AlrmKey \o <<"/", "s", "k", "i", "p">>,
                   AlrmKey \o <<"/", "s", "n", "o", "o", "z", "e">>},
          payload : {<<"1">>}]
    \cup [topic : {AlrmKey \o <<"/", "s", "n", "o", "o", "z", "e", "t", "i", "m", "e">>},
          payload : {<<"1", "h">>}]
    \cup [topic : {AlrmKey}, payload : {alrm_states[v] : v \in 1..3}]

SchedMsgIn == \E m \in SchedMsgs : AlrmDeliver(m)

\* the clock is set to hour h and the read of the timerfd reports it
SchedTimeChanged ==
    /\ \E h \in 0..MaxTime :
         /\ h * 3600 # rst.now
         /\ \E o \in {alrm_time_changed(items, rst.tfd_setp, rst.timeouts, h * 3600)} :
              /\ items' = o.items
              /\ pubs' = o.pubs
              /\ rst' = [phase |-> "timechg", now |-> h * 3600,
                         tfd_setp |-> o.tfd_setp, timeouts |-> o.timeouts]
    /\ UNCHANGED <<topics, msg, runs, freed, redelivered, alive, broker, build,
                   nmsg>>

NextSched == SchedMsgIn \/ AlrmFire \/ AlrmFlush \/ SnzTick \/ SchedTimeChanged

SpecSched == InitAlrm /\ [][NextSched]_vars

(* C38: between handlers an item has a scheduled alarm time only if it is  *)
(* valid, enabled and has at least one repeat day; an alarm that was        *)
(* disabled or whose days were all cleared so stays unscheduled until a     *)
(* message enables it or selects days again.                                *)
C38_ScheduledOnlyIfArmed ==
    \A i \in 1..Len(items) :
        items[i].scheduled # 0 =>
            (items[i].valid # 0 /\ items[i].enabled # 0 /\ items[i].wdays # 0)

\* a valid alarm that was disabled is unscheduled after the clock was set
C38_Witness ==
    /\ rst.phase = "timechg"
    /\ msg = [topic |-> AlrmKey \o <<"/", "e", "n", "a", "b", "l", "e">>,
              payload |-> <<"0">>]
    /\ AlrmIdx(items) # 0
    /\ items[AlrmIdx(items)].valid = 1
    /\ items[AlrmIdx(items)].enabled = 0
    /\ items[AlrmIdx(items)].wdays # 0
    /\ items[AlrmIdx(items)].scheduled = 0
    /\ rst.tfd_setp = 0

-----------------------------------------------------------------------------
(* mqttalrm subscribed to its state topics: the broker keeps the retained    *)
(* value of topic a/x and delivers every message it accepts, those of other  *)
(* clients and those of the daemon itself, to the daemon in one order.       *)
(* retained is the value on a/x, echo the messages accepted and not yet      *)
(* delivered; at the start the retained value, if there is one, is on its    *)
(* way to the daemon.  missed tells that the last message on a/x was         *)
(* handled while the list had no item for it.                                *)

RetainedMsgs ==
    [topic : {AlrmKey \o <<"/", "a", "l", "a", "r", "m">>},
     payload : {<<"0", "1", ":", "0", "0">>}]
    \cup [topic : {AlrmKey \o <<"/", "s", "n", "o", "o", "z", "e", "t", "i", "m", "e">>},
          payload : {<<"1", "h">>}]
    \cup [topic : {AlrmKey}, payload : {alrm_states[v] : v \in 1..3}]

InitRetained ==
    /\ items = <<>> /\ topics = <<>> /\ msg = NoMsg /\ pubs = <<>>
    /\ runs = <<>> /\ freed = <<>> /\ redelivered = FALSE /\ alive = TRUE
    /\ nmsg = 0 /\ broker = "ok" /\ build = X86
    /\ \E r \in {None} \cup {Some(alrm_states[v]) : v \in 1..3} :
         rst = [phase |-> "idle", now |-> 0, tfd_setp |-> 0, timeouts |-> {},
                echo |-> IF r = None THEN <<>>
                         ELSE <<AlrmPub(AlrmKey, r[1], TRUE)>>,
                retained |-> r, missed |-> FALSE]

RECURSIVE RetainedAfter(_, _)
\* the retained value of topic a/x after the broker accepted messages ps
RetainedAfter(r, ps) ==
    IF ps = <<>> THEN r
    ELSE RetainedAfter(IF Head(ps).topic = AlrmKey /\ Head(ps).retain
                       THEN (IF Head(ps).payload = <<>> THEN None
                             ELSE Some(Head(ps).payload))
                       ELSE r,
                       Tail(ps))

\* the daemon after a callback that left o: the broker accepts what was
\* published; echo is what was still to be delivered
RetainedStep(o, ph, echo, missed) ==
    /\ items' = o.items
    /\ pubs' = o.pubs
    /\ rst' = [phase |-> ph, now |-> rst.now, tfd_setp |-> o.tfd_setp,
               timeouts |-> o.timeouts,
               echo |-> echo \o EchoOf(o.pubs, TRUE),
               retained |-> RetainedAfter(rst.retained, o.pubs),
               missed |-> missed]

\* another client publishes m retained: the broker accepts it
RetainedWrite ==
    /\ nmsg < MaxMsgs
    /\ \E m \in RetainedMsgs :
         rst' = [rst EXCEPT !.phase = "write",
                            !.echo = Append(rst.echo, AlrmPub(m.topic, m.payload, TRUE)),
                            !.retained = IF m.topic = AlrmKey THEN Some(m.payload)
                                         ELSE rst.retained]
    /\ nmsg' = nmsg + 1
    /\ pubs' = <<>>
    /\ UNCHANGED <<items, topics, msg, runs, freed, redelivered, alive, broker,
                   build>>

\* mosquitto_loop_read delivers the oldest message: one call of my_mqtt_msg
RetainedDeliver ==
    /\ rst.echo # <<>>
    /\ \E m \in {[topic |-> Head(rst.echo).topic, payload |-> Head(rst.echo).payload]} :
         /\ msg' = m
         /\ RetainedStep(alrm_my_mqtt_msg(items, rst.tfd_setp, rst.timeouts, m, rst.now),
                         "msg", Tail(rst.echo),
                         IF m.topic = AlrmKey
                         THEN alrm_get_item(items, m.topic, <<>>, 0)[2] = 0
                         ELSE rst.missed)
    /\ UNCHANGED <<topics, runs, freed, redelivered, alive, broker, build, nmsg>>

\* poll reports the timerfd
RetainedFire ==
    /\ AlrmReadable
    /\ RetainedStep(alrm_timerfd(items, rst.tfd_setp, rst.timeouts, rst.now),
                    "fired", rst.echo, rst.missed)
    /\ UNCHANGED <<topics, msg, runs, freed, redelivered, alive, broker, build,
                   nmsg>>

\* libt_flush() runs a due timeout
RetainedFlush ==
    /\ \E t \in AlrmDue :
         /\ AlrmItemOf(items, t) # 0
         /\ RetainedStep(alrm_flush(items, AlrmItemOf(items, t), rst.tfd_setp,
                                    rst.timeouts, t, rst.now),
                         "flush", rst.echo, rst.missed)
    /\ UNCHANGED <<topics, msg, runs, freed, redelivered, alive, broker, build,
                   nmsg>>

\* an hour passes while nothing is due and nothing is to be delivered
RetainedTick ==
    /\ ~AlrmReadable
    /\ AlrmDue = {}
    /\ rst.echo = <<>>
    /\ rst.now < MaxTime * 3600
    /\ rst' = [rst EXCEPT !.phase = "tick", !.now = rst.now + 3600]
    /\ pubs' = <<>>
    /\ UNCHANGED <<items, topics, msg, runs, freed, redelivered, alive, broker,
                   build, nmsg>>

NextRetained ==
    RetainedWrite \/ RetainedDeliver \/ RetainedFire \/ RetainedFlush \/ RetainedTick

SpecRetained == InitRetained /\ [][NextRetained]_vars

\* every message was delivered, and the list has the alarm while its topic
\* has a retained value
C39_Settled ==
    /\ rst.echo = <<>>
    /\ AlrmIdx(items) # 0
    /\ rst.retained # None

(* C39: whenever every message has been delivered to the daemon and        *)
(* handled, the state of the item is the one named by the retained value   *)
(* of its topic, whoever wrote the value and whatever value was on the     *)
(* topic before the item was created.                                       *)
C39_StateIsRetained ==
    C39_Settled => alrm_states[items[AlrmIdx(items)].state + 1] = rst.retained[1]

\* what does hold: the state is the one of the retained value unless the
\* value was delivered while the list had no item of the topic
C39_StateIsRetainedOnceKnown ==
    (C39_Settled /\ ~rst.missed) =>
        alrm_states[items[AlrmIdx(items)].state + 1] = rst.retained[1]

\* the daemon set the alarm on after another client had written snoozed,
\* and its own 1 has come back
C39_Followed ==
    /\ C39_Settled /\ ~rst.missed
    /\ rst.phase = "msg"
    /\ msg = [topic |-> AlrmKey, payload |-> alrm_states[ALRM_ON + 1]]
    /\ rst.now = 3600
    /\ items[AlrmIdx(items)].state = ALRM_ON
    /\ items[AlrmIdx(items)].snooze_time = 3600

-----------------------------------------------------------------------------
(* mqttlogic with a chain of two items, a = ${b} 1 + and n = ${a} 1 +: no     *)
(* item depends on its own topic.  Other clients set the two items and        *)
(* write topics b and a; the broker delivers every publish of the daemon      *)
(* back to it, in order.  MaxMsgs bounds the messages of other clients;       *)
(* count[k] lists the topics published because of the k-th of them, by its    *)
(* handler or by the handler of a publish that came back.                     *)

ExprIncB == <<"$", "{", "b", "}", " ", "1", " ", "+">>

ChainMsgs ==
    {[topic |-> <<"a">> \o mqtt_suffix, payload |-> ExprIncB],
     [topic |-> <<"n">> \o mqtt_suffix, payload |-> ExprIncA],
     [topic |-> <<"b">>, payload |-> <<"1">>],
     [topic |-> <<"b">>, payload |-> <<"2">>],
     [topic |-> <<"a">>, payload |-> <<"5">>]}

InitChain ==
    /\ items = <<>> /\ topics = <<>> /\ msg = NoMsg /\ pubs = <<>>
    /\ runs = <<>> /\ freed = <<>> /\ redelivered = FALSE /\ alive = TRUE
    /\ nmsg = 0 /\ broker = "ok" /\ build = X86
    /\ rst = [phase |-> "idle", echo |-> <<>>, count |-> <<>>]

\* the publishes ps as the messages that come back, marked with the number
\* of the message of another client they follow from
ChainEchoOf(ps, from) ==
    [k \in 1..Len(ps) |->
        [topic |-> ps[k].topic, payload |-> ps[k].payload, from |-> from]]

\* the topics of the publishes ps
PubTopics(ps) == [k \in 1..Len(ps) |-> ps[k].topic]

\* one call of my_mqtt_msg for message m, which follows from message
\* number from; echo are the messages that are still to come back
ChainHandle(m, ph, echo, from, count) ==
    /\ alive
    /\ \E o \in {my_mqtt_msg(items, topics, m, build,
                             [i \in 1..Cardinality(ItemKeys) |-> 0])} :
         /\ items' = o.items
         /\ topics' = o.topics
         /\ pubs' = o.pubs
         /\ runs' = o.runs
         /\ freed' = o.freed
         /\ alive' = ~o.exit
         /\ rst' = [phase |-> ph,
                    echo |-> echo \o ChainEchoOf(o.pubs, from),
                    count |-> [count EXCEPT ![from] = @ \o PubTopics(o.pubs)]]
    /\ msg' = m
    /\ UNCHANGED <<redelivered, broker, build>>

\* a message of another client
ChainExt ==
    /\ nmsg < MaxMsgs
    /\ nmsg' = nmsg + 1
    /\ \E m \in ChainMsgs :
         ChainHandle(m, "msg", rst.echo, nmsg + 1, Append(rst.count, <<>>))

\* the oldest publish of the daemon itself comes back
ChainEcho ==
    /\ rst.echo # <<>>
    /\ nmsg' = nmsg
    /\ ChainHandle([topic |-> Head(rst.echo).topic,
                    payload |-> Head(rst.echo).payload],
                   "echo", Tail(rst.echo), Head(rst.echo).from, rst.count)

NextChain == ChainExt \/ ChainEcho

SpecChain == InitChain /\ [][NextChain]_vars

(* C40: with no item depending on its own topic, a message of another      *)
(* client leads to finitely many publishes: in the chain of two items      *)
(* each item publishes at most once because of it, counting the publishes  *)
(* of its handler and of the handlers of the publishes that came back.     *)
(* A publish that comes back for the last item of the chain makes no item  *)
(* run and leads to no publish, so that nothing is left to come back.      *)
C40_FinitelyManyPublishes ==
    /\ \A k \in 1..Len(rst.count) :
         /\ Len(rst.count[k]) <= Cardinality(ItemKeys)
         /\ \A i, j \in 1..Len(rst.count[k]) :
              i # j => rst.count[k][i] # rst.count[k][j]
    /\ Len(rst.echo) <= Cardinality(ItemKeys) * nmsg
    /\ (rst.phase = "echo" /\ msg.topic = <<"n">>) =>
           runs = <<>> /\ pubs = <<>>

\* the third message, a value of b, made a publish, which came back and
\* made n publish, which came back and made nothing: all is delivered
C40_Witness ==
    /\ rst.phase = "echo"
    /\ rst.echo = <<>>
    /\ pubs = <<>>
    /\ msg.topic = <<"n">>
    /\ nmsg = 3
    /\ rst.count[3] = << <<"a">>, <<"n">> >>
====
